---- MODULE Spec2Model ----
(***************************************************************************)
(* Anti-phishing browser extension and its reputation proxy.               *)
(*                                                                         *)
(* The repository holds several variants of the same two programs:        *)
(*   proxy      src/unnamed/part_000 (OpenPhish + local URLhaus feeds)     *)
(*              src/server/server.js (URLhaus host list only)              *)
(*   extension  src/unnamed/part_004 (host cache, CHECK_HOST_HOVER,        *)
(*                                    useSafeBrowsingOnly)                 *)
(*              src/background.js:1-350   (CHECK_URL_HOVER variant)        *)
(*              src/background.js:351-650 (direct Safe Browsing variant)   *)
(*                                                                         *)
(* Representation.  A hostname is the sequence of its dot-separated        *)
(* labels (the value of host.split('.')), so join('.') of a slice is the   *)
(* sub-sequence.  The empty sequence stands for '' and for null: both are  *)
(* falsy and every caller tests them with `if (x)`.  A URL is a record of  *)
(* the host the URL parser extracts and the rest of the string (path and   *)
(* query); an unparseable URL has host Null.  Time is Date.now() in        *)
(* milliseconds counted from the start of the process, and advances in     *)
(* steps of TickMs; a timestamp variable the code initialises to 0 starts  *)
(* at -ProcessStartMs.                                                     *)
(***************************************************************************)
EXTENDS Integers, Sequences, FiniteSets, TLC

VARIABLES
    srv,            \* which proxy file runs: "part_000" or "server_js"
    phishtankKey,   \* PHISHTANK_KEY is set (process.env.PHISHTANK_API_KEY)
    feedHostSet,    \* part_000 feedHostSet / server.js urlhausSet
    cache,          \* the proxy's Map: URL string -> entry
    now,            \* Date.now()
    chk,            \* the GET /check request in flight, then its response
    okResp,         \* history: the last response sent after a Safe Browsing
                    \* lookup that succeeded and matched nothing
    hostResp        \* the last GET /checkHost request and its response

\* the extension's service worker (src/unnamed/part_004, src/background.js)
VARIABLES
    enabled,             \* let enabled
    allowlist,           \* let allowlist
    blocklist,           \* let blocklist (packaged blocklist.json)
    useCloudLookup,      \* let useCloudLookup
    useDirectLookup,     \* let useDirectLookup
    directApiKey,        \* let directApiKey
    useSafeBrowsingOnly, \* let useSafeBrowsingOnly (part_004 only)
    hostCache,           \* const hostCache = new Map()
    hoverCache,          \* const hoverCache = new Map()
    nav,                 \* the onBeforeNavigate call in flight, then its outcome
    hov                  \* the hover message being handled, then its response

\* the proxy's feed refreshes (src/unnamed/part_000)
VARIABLES
    runs,              \* updateFeeds calls awaiting fetchOpenPhishFeed, by trigger
    lastFeedUpdateTs,  \* let lastFeedUpdateTs
    intervalsFired,    \* how often the setInterval callback has run
    feedRet,           \* what the last updateFeeds call returned
    refresh            \* the last POST /refresh-feeds request and its answer

\* one call of runHeuristics and what it returned
VARIABLES heur

\* the proxy's POST /log: the last two requests and the lines printed for them
VARIABLES logReq

\* the host cache in chrome.storage.local and the handlers that use it
VARIABLES
    persisted,       \* chrome.storage.local['hostCheckCache']
    pendingPersist,  \* the newest chrome.storage.local.set not yet applied
    persistTimer,    \* background.js:410 persistTimer is set
    hostHov,         \* part_004 CHECK_HOST_HOVER being handled, then its response
    dnav             \* background.js:542 onBeforeNavigate in flight, then its outcome

\* the settings in chrome.storage.local and their way to the service worker
VARIABLES
    stored,          \* chrome.storage.local: the keys the service worker loads
    changes,         \* chrome.storage.onChanged events not yet dispatched
    loaded           \* the initialization's chrome.storage.local.get has returned

storeVars == <<persisted, pendingPersist, persistTimer, hostHov, dnav>>

cfgVars == <<stored, changes, loaded>>

\* the pages of the extension
VARIABLES
    popup,           \* popup.js:127: its controls and its storage calls in flight
    warning          \* warning.js:43: the click on the Allow button being handled

\* the content script of a web page (content_script.js:1-275)
VARIABLES
    cs,              \* the pointer, hoverTimer, lastHostChecked, the badge and the cache
    sends            \* the promises of safeSendMessage: settled, callback, timer

csVars == <<cs, sends>>

pageVars == <<popup, warning, csVars>>

\* the command-line tools of the server directory
VARIABLES
    upd              \* server/update_urlhaus.js: the data files and its last run

toolVars == <<upd>>

moreVars == <<heur, logReq, storeVars, cfgVars, pageVars, toolVars>>

feedVars == <<runs, lastFeedUpdateTs, intervalsFired, feedRet, refresh>>

proxyVars == <<srv, phishtankKey, feedHostSet, cache, chk, okResp, hostResp, feedVars>>

settingVars == <<enabled, allowlist, blocklist, useCloudLookup, useDirectLookup,
                 directApiKey, useSafeBrowsingOnly>>

extVars == <<settingVars, hostCache, hoverCache, nav, hov, moreVars>>

vars == <<proxyVars, now, extVars>>

----------------------------------------------------------------------------
(* Bounds *)

MaxLabels == 4      \* longest host (in labels) asked of /checkHost
MaxTicks  == 2      \* clock steps in a behaviour
MaxRuns   == 2      \* updateFeeds calls in flight at once

(* Program constants *)

TickMs       == 5 * 60 * 1000
CACHE_TTL_MS == 10 * 60 * 1000

\* Date.now() when the process starts (any date of this century is far
\* larger than every interval the code compares against)
ProcessStartMs == 24 * 60 * 60 * 1000

Null == <<>>

----------------------------------------------------------------------------
(* Strings *)

Labels == {"sub", "evil", "com"}

\* String.prototype.toLowerCase on one label
LowerLabel(l) ==
    CASE l = "EVIL" -> "evil"
      [] l = "Sub"  -> "sub"
      [] OTHER      -> l

toLowerCase(host) == [i \in 1..Len(host) |-> LowerLabel(host[i])]

\* all hosts of 1..n labels
RECURSIVE HostsUpTo(_)
HostsUpTo(n) ==
    IF n = 0 THEN {}
    ELSE HostsUpTo(n - 1) \cup [1..n -> Labels]

Url(h, p) == [host |-> h, path |-> p]

\* new URL(urlStr).hostname.toLowerCase(), null when the parse throws
hostnameFromUrl(u) == toLowerCase(u.host)

\* a host name as one string: its labels joined by dots
RECURSIVE JoinDots(_)
JoinDots(h) ==
    IF Len(h) = 0 THEN ""
    ELSE IF Len(h) = 1 THEN h[1]
    ELSE h[1] \o "." \o JoinDots(Tail(h))

----------------------------------------------------------------------------
(* HostMatcher: findMatchingHostInSet *)

\* mutant: no suffix is tried at all (exact match only)
findSuffixLoop_exactOnly(parts, i, set) == Null

\* mutant: the loop runs to i = parts.length - 1 and so tries the bare last label
RECURSIVE findSuffixLoop_withTld(_, _, _)
findSuffixLoop_withTld(parts, i, set) ==
    IF ~(i < Len(parts)) THEN Null
    ELSE LET suffix == SubSeq(parts, i + 1, Len(parts))
         IN  IF suffix \in set THEN suffix
             ELSE findSuffixLoop_withTld(parts, i + 1, set)

\* mutant: the loop runs from the shortest suffix to the longest
RECURSIVE findSuffixLoop_shortestFirst(_, _, _)
findSuffixLoop_shortestFirst(parts, i, set) ==
    IF ~(i < Len(parts) - 1) THEN Null
    ELSE LET suffix == SubSeq(parts, Len(parts) - 1 - i, Len(parts))
         IN  IF suffix \in set THEN suffix
             ELSE findSuffixLoop_shortestFirst(parts, i + 1, set)

\* the for loop: i = 0 .. parts.length - 2, suffix = parts.slice(i).join('.')
RECURSIVE findSuffixLoop(_, _, _)
findSuffixLoop(parts, i, set) ==
    IF ~(i < Len(parts) - 1) THEN Null
    ELSE LET suffix == SubSeq(parts, i + 1, Len(parts))
         IN  IF suffix \in set THEN suffix
             ELSE findSuffixLoop(parts, i + 1, set)

findMatchingHostIn(hostArg, set) ==
    IF hostArg = Null THEN Null
    ELSE LET host == toLowerCase(hostArg)
         IN  IF host \in set THEN host
             ELSE findSuffixLoop(host, 0, set)

findMatchingHostInSet(host) == findMatchingHostIn(host, feedHostSet)

----------------------------------------------------------------------------
(* FeedStore *)

\* lines an OpenPhish download can hold, and lines of data/urlhaus_hosts.txt
OpenPhishUrls == {Url(<<"EVIL", "com">>, "/login")}
LocalLines    == {<<"com">>, <<"sub", "evil", "com">>}

\* ok = FALSE: the fetch failed or was non-OK / the file is missing or unreadable
OpenPhishOutcomes == {[ok |-> FALSE, lines |-> {}]}
                         \cup {[ok |-> TRUE, lines |-> s] : s \in SUBSET OpenPhishUrls}
LocalFileOutcomes == {[ok |-> FALSE, lines |-> {}]}
                         \cup {[ok |-> TRUE, lines |-> s] : s \in SUBSET LocalLines}

\* fetchOpenPhishFeed: [] on a failed fetch, else the hostnames of the lines
fetchOpenPhishFeed(outcome) ==
    IF ~outcome.ok THEN {}
    ELSE {hostnameFromUrl(u) : u \in {x \in outcome.lines : hostnameFromUrl(x) # Null}}

\* readLocalUrlhausHosts: [] when missing or unreadable, else lower-cased lines
readLocalUrlhausHosts(outcome) ==
    IF ~outcome.ok THEN {}
    ELSE {toLowerCase(h) : h \in outcome.lines}

\* who called updateFeeds: the startup IIFE, the setInterval callback, or
\* the POST /refresh-feeds handler
Triggers == {"startup", "interval", "manual"}

NoRuns == [t \in Triggers |-> 0]
RunsInFlight == runs["startup"] + runs["interval"] + runs["manual"]

\* mutant: the hosts of the OpenPhish download are dropped
mergeFeeds_localOnly(openHosts, localUrlhausHosts) == localUrlhausHosts

\* mutant: only the first loop runs before the set is published
mergeFeeds_openOnly(openHosts, localUrlhausHosts) == openHosts

\* the two for loops that fill `merged`
mergeFeeds(openHosts, localUrlhausHosts) == openHosts \cup localUrlhausHosts

\* the return value of updateFeeds; published records the hosts the two
\* sources delivered to the run
NoFeedRet == [ok |-> FALSE, openphish |-> 0, localUrlhaus |-> 0, total |-> 0,
              published |-> {}]

\* updateFeeds after its await (lines 92-107): read the local file, merge,
\* publish the merged set in one assignment, stamp the time, return
publishFeeds(open, local) ==
    LET openHosts == fetchOpenPhishFeed(open)
        localUrlhausHosts == readLocalUrlhausHosts(local)
        merged == mergeFeeds(openHosts, localUrlhausHosts)
    IN  /\ feedHostSet' = merged
        /\ lastFeedUpdateTs' = now
        /\ feedRet' = [ok |-> TRUE, openphish |-> Cardinality(openHosts),
                       localUrlhaus |-> Cardinality(localUrlhausHosts),
                       total |-> Cardinality(merged),
                       published |-> openHosts \cup localUrlhausHosts]

\* part_000 updateFeeds, a scheduled run from call to return with no other
\* handler running during its await
updateFeeds(open, local) ==
    /\ srv = "part_000"
    /\ publishFeeds(open, local)
    /\ UNCHANGED <<runs, intervalsFired, refresh>>
    /\ UNCHANGED extVars
    /\ UNCHANGED <<srv, phishtankKey, cache, now, chk, okResp, hostResp>>

\* server.js loadUrlhausHosts: the lines of the file, the empty set without it
loadUrlhausHosts(local) ==
    /\ srv = "server_js"
    /\ feedHostSet' = IF ~local.ok THEN {} ELSE local.lines
    /\ UNCHANGED <<extVars, feedVars>>
    /\ UNCHANGED <<srv, phishtankKey, cache, now, chk, okResp, hostResp>>

----------------------------------------------------------------------------
(* GET /checkHost *)

\* set: the feed set the lookup read; inFlight: the updateFeeds calls that
\* were awaiting their fetch when the lookup ran
NoHostResp == [host |-> Null, status |-> 0, unsafe |-> FALSE, matchedHost |-> Null,
               set |-> {}, inFlight |-> 0]

\* hosts a client asks about
QueryHosts == HostsUpTo(MaxLabels) \cup {<<"Sub", "EVIL", "com">>, Null}

CheckHost(q) ==
    /\ srv = "part_000"
    /\ LET host == toLowerCase(q)
       IN  IF host = Null
           THEN hostResp' = [host |-> q, status |-> 400, unsafe |-> FALSE,
                             matchedHost |-> Null, set |-> feedHostSet,
                             inFlight |-> RunsInFlight]
           ELSE LET matched == findMatchingHostInSet(host)
                IN  hostResp' = [host |-> q, status |-> 200,
                                 unsafe |-> (matched # Null), matchedHost |-> matched,
                                 set |-> feedHostSet, inFlight |-> RunsInFlight]
    /\ UNCHANGED <<extVars, feedVars>>
    /\ UNCHANGED <<srv, phishtankKey, feedHostSet, cache, now, chk, okResp>>

----------------------------------------------------------------------------
(* Clock *)

Tick ==
    /\ now < MaxTicks * TickMs
    /\ now' = now + TickMs
    /\ UNCHANGED <<extVars, feedVars>>
    /\ UNCHANGED <<srv, phishtankKey, feedHostSet, cache, chk, okResp, hostResp>>

----------------------------------------------------------------------------
(* Feed refreshes: scheduling and POST /refresh-feeds *)

FEED_UPDATE_INTERVAL_MS == 10 * 60 * 1000
RateLimitMs == 2000

\* the short clock step: half the rate-limit window, taken after a long
\* step until the window has passed
HalfWindowMs == RateLimitMs \div 2

TickShort ==
    /\ now % TickMs < RateLimitMs
    /\ now' = now + HalfWindowMs
    /\ UNCHANGED extVars
    /\ UNCHANGED <<srv, phishtankKey, feedHostSet, cache, chk, okResp, hostResp, feedVars>>

\* updateFeeds up to its await: the call just starts fetchOpenPhishFeed
updateFeedsCalled(trigger) ==
    /\ RunsInFlight < MaxRuns
    /\ runs' = [runs EXCEPT ![trigger] = @ + 1]

\* answer: "" before any request, "rate_limited", "started" while the
\* handler awaits updateFeeds, "ok" once res.json(r) was sent.  manualStart
\* is when the handler last called updateFeeds (-1: never), failed the
\* sources that failed in the run whose result was sent.
NoRefresh == [answer |-> "", manualStart |-> -1, failed |-> {}]

FailedSources(open, local) ==
    (IF open.ok THEN {} ELSE {"openphish"}) \cup (IF local.ok THEN {} ELSE {"localUrlhaus"})

\* setInterval(() => updateFeeds(), FEED_UPDATE_INTERVAL_MS)
IntervalFire ==
    /\ srv = "part_000"
    /\ now >= (intervalsFired + 1) * FEED_UPDATE_INTERVAL_MS
    /\ intervalsFired' = intervalsFired + 1
    /\ updateFeedsCalled("interval")
    /\ UNCHANGED <<lastFeedUpdateTs, feedRet, refresh>>
    /\ UNCHANGED extVars
    /\ UNCHANGED <<srv, phishtankKey, feedHostSet, cache, now, chk, okResp, hostResp>>

\* POST /refresh-feeds up to its await
RefreshFeeds ==
    /\ srv = "part_000"
    /\ IF (now - lastFeedUpdateTs) < RateLimitMs
       THEN /\ refresh' = [refresh EXCEPT !.answer = "rate_limited"]
            /\ UNCHANGED runs
       ELSE /\ updateFeedsCalled("manual")
            /\ refresh' = [answer |-> "started", manualStart |-> now, failed |-> {}]
    /\ UNCHANGED <<lastFeedUpdateTs, intervalsFired, feedRet>>
    /\ UNCHANGED extVars
    /\ UNCHANGED <<srv, phishtankKey, feedHostSet, cache, now, chk, okResp, hostResp>>

\* fetchOpenPhishFeed of one run in flight settles: the rest of updateFeeds
\* runs, and the POST handler that awaited it sends its result
updateFeedsSettled(trigger, open, local) ==
    /\ srv = "part_000"
    /\ runs[trigger] > 0
    /\ runs' = [runs EXCEPT ![trigger] = @ - 1]
    /\ publishFeeds(open, local)
    /\ refresh' = IF trigger = "manual"
                  THEN [refresh EXCEPT !.answer = "ok", !.failed = FailedSources(open, local)]
                  ELSE refresh
    /\ UNCHANGED intervalsFired
    /\ UNCHANGED extVars
    /\ UNCHANGED <<srv, phishtankKey, cache, now, chk, okResp, hostResp>>

----------------------------------------------------------------------------
(* GET /check *)

CheckUrls == {Url(<<"sub", "evil", "com">>, "/path?x=1"), Url(<<"shop", "com">>, "/")}

NoEntry   == [ts |-> -1]
NoMatches == [feeds |-> Null, safebrowsing |-> "null", phishtank |-> "null"]

\* what the Safe Browsing fetch and the PhishTank helper can come back with
SbOutcomes == {"match", "nomatch", "nonok", "throw"}
PtOutcomes == {"hit", "miss", "error", "null"}

\* chk.pc: "idle" before any request, "sb" and "pt" while the handler awaits
\* Safe Browsing / PhishTank, "done" once res.json() or res.status() was sent.
\* sbOutcome and ptAsked record what the Safe Browsing fetch of this request
\* came back with and whether checkPhishTank was called for it; age is
\* now - c.ts of the entry a cached answer was taken from.
IdleChk ==
    [pc |-> "idle", url |-> Url(Null, ""), status |-> 0, safe |-> TRUE,
     matches |-> NoMatches, cached |-> FALSE, safebrowsing_used |-> FALSE,
     sbOutcome |-> "none", ptAsked |-> FALSE, age |-> -1]

\* mutant: an entry is served whatever its age
CacheFresh_anyAge(c, t) == c # NoEntry

\* the cache test of the handler: c && (now - c.ts) < CACHE_TTL_MS
CacheFresh(c, t) == c # NoEntry /\ (t - c.ts) < CACHE_TTL_MS

\* cache.set(key, { safe, matches, ts: Date.now(), safebrowsing_used })
CacheSet(key, safe, matches, used) ==
    cache' = [cache EXCEPT ![key] =
                [safe |-> safe, matches |-> matches, ts |-> now,
                 safebrowsing_used |-> (srv = "part_000" /\ used)]]

\* the fields of a response a client sees
Visible(c) ==
    [status |-> c.status, safe |-> c.safe, matches |-> c.matches, cached |-> c.cached,
     safebrowsing_used |-> c.safebrowsing_used]

NoResp == [status |-> 0]

Respond(c, status, safe, matches, cached, used) ==
    chk' = [c EXCEPT !.pc = "done", !.status = status, !.safe = safe,
                     !.matches = matches, !.cached = cached,
                     !.safebrowsing_used = (srv = "part_000" /\ used)]

\* the handler up to its first await: cache check, then the local feed match
CheckRequest(url) ==
    /\ chk.pc \in {"idle", "done"}
    /\ LET key == url
           c == cache[key]
           req == [IdleChk EXCEPT !.url = url]
           host == hostnameFromUrl(url)
           matchedHost == findMatchingHostInSet(host)
       IN  IF CacheFresh(c, now)
           THEN /\ Respond([req EXCEPT !.age = now - c.ts], 200, c.safe, c.matches, TRUE,
                           c.safebrowsing_used)
                /\ UNCHANGED cache
           ELSE IF host # Null /\ matchedHost # Null
           THEN LET combinedMatches == [NoMatches EXCEPT !.feeds = matchedHost]
                IN  /\ CacheSet(key, FALSE, combinedMatches, FALSE)
                    /\ Respond(req, 200, FALSE, combinedMatches, FALSE, FALSE)
           ELSE /\ chk' = [req EXCEPT !.pc = "sb", !.safebrowsing_used = (srv = "part_000")]
                /\ UNCHANGED cache
    /\ UNCHANGED <<extVars, feedVars>>
    /\ UNCHANGED <<srv, phishtankKey, feedHostSet, now, okResp, hostResp>>

\* the Safe Browsing fetch settles
CheckSafeBrowsing(outcome) ==
    /\ chk.pc = "sb"
    /\ LET c == [chk EXCEPT !.sbOutcome = outcome]
           key == chk.url
       IN  IF outcome \in {"nonok", "throw"}
           THEN IF srv = "part_000"
                THEN /\ CacheSet(key, TRUE, c.matches, TRUE)
                     /\ Respond(c, 200, TRUE, c.matches, FALSE, TRUE)
                ELSE /\ Respond(c, 500, TRUE, c.matches, FALSE, FALSE)
                     /\ UNCHANGED cache
           ELSE IF outcome = "match"
           THEN LET combinedMatches == [c.matches EXCEPT !.safebrowsing = "matches"]
                IN  /\ CacheSet(key, FALSE, combinedMatches, TRUE)
                    /\ Respond(c, 200, FALSE, combinedMatches, FALSE, TRUE)
           ELSE IF phishtankKey
           THEN /\ chk' = [c EXCEPT !.pc = "pt", !.ptAsked = TRUE]
                /\ UNCHANGED cache
           ELSE /\ CacheSet(key, TRUE, c.matches, TRUE)
                /\ Respond(c, 200, TRUE, c.matches, FALSE, TRUE)
    /\ okResp' = IF chk'.pc = "done" /\ outcome = "nomatch" THEN Visible(chk') ELSE okResp
    /\ UNCHANGED <<extVars, feedVars>>
    /\ UNCHANGED <<srv, phishtankKey, feedHostSet, now, hostResp>>

\* checkPhishTank settles (it catches its own errors)
CheckPhishTank(outcome) ==
    /\ chk.pc = "pt"
    /\ LET key == chk.url
           combinedMatches == [chk.matches EXCEPT !.phishtank = outcome]
           safe == ~(outcome = "hit")
       IN  /\ CacheSet(key, safe, combinedMatches, TRUE)
           /\ Respond(chk, 200, safe, combinedMatches, FALSE, TRUE)
    /\ okResp' = IF outcome = "hit" THEN okResp ELSE Visible(chk')
    /\ UNCHANGED <<extVars, feedVars>>
    /\ UNCHANGED <<srv, phishtankKey, feedHostSet, now, hostResp>>

----------------------------------------------------------------------------
(* Extension: strings of the heuristics *)

\* the characters of each label the extension's hosts are made of
Chars(l) ==
    CASE l = "evil" -> <<"e", "v", "i", "l">>
      [] l = "shop" -> <<"s", "h", "o", "p">>
      [] l = "com"  -> <<"c", "o", "m">>
      [] l = "tk"   -> <<"t", "k">>
      [] l = "paypal-login" -> <<"p", "a", "y", "p", "a", "l", "-", "l", "o", "g", "i", "n">>
      [] l = "paypal" -> <<"p", "a", "y", "p", "a", "l">>
      [] l = "xn--paypal" -> <<"x", "n", "-", "-", "p", "a", "y", "p", "a", "l">>
      [] l = "secure-paypal-account-verify" ->
            <<"s", "e", "c", "u", "r", "e", "-", "p", "a", "y", "p", "a", "l", "-",
              "a", "c", "c", "o", "u", "n", "t", "-", "v", "e", "r", "i", "f", "y">>
      [] l = "abcdefghijklmnopabcdefghijklmnop" ->
            [i \in 1..32 |-> <<"a", "b", "c", "d", "e", "f", "g", "h",
                                "i", "j", "k", "l", "m", "n", "o", "p">>[((i - 1) % 16) + 1]]
      [] l = "203"  -> <<"2", "0", "3">>
      [] l = "0"    -> <<"0">>
      [] l = "113"  -> <<"1", "1", "3">>
      [] l = "5"    -> <<"5">>
      [] OTHER      -> <<>>

\* parts.join('.')
RECURSIVE HostChars(_)
HostChars(host) ==
    IF host = <<>> THEN <<>>
    ELSE IF Len(host) = 1 THEN Chars(host[1])
    ELSE Chars(host[1]) \o <<".">> \o HostChars(Tail(host))

\* String.prototype.includes / endsWith
Includes(str, needle) ==
    \E i \in 1..(Len(str) - Len(needle) + 1) : SubSeq(str, i, i + Len(needle) - 1) = needle
EndsWith(str, tail) ==
    Len(tail) <= Len(str) /\ SubSeq(str, Len(str) - Len(tail) + 1, Len(str)) = tail

Digits == {"0", "1", "2", "3", "4", "5", "6", "7", "8", "9"}

\* /^\d+\.\d+\.\d+\.\d+$/.test(host)
IsIPv4Literal(host) ==
    /\ Len(host) = 4
    /\ \A i \in 1..4 : Chars(host[i]) # <<>> /\ \A k \in 1..Len(Chars(host[i])) : Chars(host[i])[k] \in Digits

SUSPICIOUS_TLDS == {"tk", "ml", "ga", "cf", "gq"}

\* brandTokens, in the order of the array
brandTokens ==
    << <<"p", "a", "y", "p", "a", "l">>, <<"g", "o", "o", "g", "l", "e">>,
       <<"a", "p", "p", "l", "e">>, <<"a", "m", "a", "z", "o", "n">>,
       <<"m", "i", "c", "r", "o", "s", "o", "f", "t">>,
       <<"f", "a", "c", "e", "b", "o", "o", "k">>,
       <<"n", "e", "t", "f", "l", "i", "x">>, <<"b", "a", "n", "k">> >>
brandNames ==
    <<"paypal", "google", "apple", "amazon", "microsoft", "facebook", "netflix", "bank">>

MaxHostLength == 24

NoReason == ""

\* chrome.runtime.getURL('warning.html') and what onBeforeNavigate appends to it
ExtensionId == <<"abcdefghijklmnopabcdefghijklmnop">>
IsWarningUrl(u) == u.host = ExtensionId /\ u.path = "/warning.html"

\* the for loop over brandTokens
RECURSIVE brandLoop(_, _)
brandLoop(str, k) ==
    IF k > Len(brandTokens) THEN NoReason
    ELSE IF Includes(str, brandTokens[k]) /\ ~EndsWith(str, brandTokens[k] \o <<".", "c", "o", "m">>)
         THEN "Contains brand token \"" \o brandNames[k] \o "\" (possible impersonation)"
         ELSE brandLoop(str, k + 1)

\* mutant: the brand tokens are tried before the suspicious TLDs
runHeuristicsOn_brandFirst(u, skipLocalDb, allow, block) ==
    LET host == toLowerCase(u.host)
        str == HostChars(host)
        tld == host[Len(host)]
    IN  IF host = Null THEN NoReason
        ELSE IF IsWarningUrl(u) THEN NoReason
        ELSE IF host \in allow THEN NoReason
        ELSE IF ~skipLocalDb /\ host \in block THEN "Domain is on the local blocklist"
        ELSE IF Includes(str, <<"x", "n", "-", "-">>) THEN "Punycode (possible homograph attack)"
        ELSE IF IsIPv4Literal(host) THEN "IP address used as host"
        ELSE IF Len(str) > MaxHostLength THEN "Unusually long hostname"
        ELSE IF brandLoop(str, 1) # NoReason THEN brandLoop(str, 1)
        ELSE IF tld \in SUSPICIOUS_TLDS THEN "Suspicious TLD (." \o tld \o ")"
        ELSE NoReason

\* runHeuristics(urlStr, skipLocalDb) over the allowlist and blocklist given
runHeuristicsOn(u, skipLocalDb, allow, block) ==
    LET host == toLowerCase(u.host)
        str == HostChars(host)
        tld == host[Len(host)]
    IN  IF host = Null THEN NoReason
        ELSE IF IsWarningUrl(u) THEN NoReason
        ELSE IF host \in allow THEN NoReason
        ELSE IF ~skipLocalDb /\ host \in block THEN "Domain is on the local blocklist"
        ELSE IF Includes(str, <<"x", "n", "-", "-">>) THEN "Punycode (possible homograph attack)"
        ELSE IF IsIPv4Literal(host) THEN "IP address used as host"
        ELSE IF Len(str) > MaxHostLength THEN "Unusually long hostname"
        ELSE IF tld \in SUSPICIOUS_TLDS THEN "Suspicious TLD (." \o tld \o ")"
        ELSE brandLoop(str, 1)

runHeuristics(u, skipLocalDb) == runHeuristicsOn(u, skipLocalDb, allowlist, blocklist)

\* URLs handed to runHeuristics
PaypalTk == <<"paypal-login", "tk">>
HeurHosts ==
    {<<"evil", "com">>, PaypalTk, <<"paypal-login", "com">>, <<"paypal", "com">>,
     <<"xn--paypal", "tk">>, <<"203", "0", "113", "5">>,
     <<"secure-paypal-account-verify", "tk">>, <<"shop", "tk">>}
HeurUrls == {Url(h, "/") : h \in HeurHosts} \cup {Url(ExtensionId, "/warning.html")}

NoHeur == [url |-> Url(Null, ""), skipLocalDb |-> FALSE, reason |-> NoReason,
           called |-> FALSE]

\* a caller evaluates runHeuristics(urlStr, skipLocalDb)
Heuristics(u, skipLocalDb) ==
    /\ heur' = [url |-> u, skipLocalDb |-> skipLocalDb,
                reason |-> runHeuristics(u, skipLocalDb), called |-> TRUE]
    /\ UNCHANGED <<settingVars, hostCache, hoverCache, nav, hov, proxyVars, now>>
    /\ UNCHANGED <<logReq, storeVars, cfgVars, pageVars, toolVars>>

----------------------------------------------------------------------------
(* Extension: remote lookups *)

\* what the Safe Browsing API call can come back with
DirectOutcomes == {"match", "nomatch", "nonok", "throw"}

\* checkWithSafeBrowsingDirect(apiKey, url): a reason for a match, else null
checkWithSafeBrowsingDirect(apiKey, outcome) ==
    IF apiKey = "" THEN NoReason
    ELSE IF outcome = "match" THEN "Matches Google Safe Browsing (direct)"
    ELSE NoReason

\* what GET /check of the proxy can come back with: unsafe by a feed match,
\* unsafe by Safe Browsing, safe, a non-OK status, or no response at all
ProxyOutcomes == {"feed", "sb", "safe", "nonok", "throw"}

ProxyOk(o)     == o \in {"feed", "sb", "safe"}
ProxyUnsafe(o) == o \in {"feed", "sb"}
\* json.safebrowsing_used
ProxySbUsed(o) == o \in {"sb", "safe"}

\* the apiKey argument of a call that went on to fetch: the callers pass
\* directApiKey only when it is non-empty
CallKey == "key"

\* background.js checkWithProxy(url): a reason when json.safe === false, else null
checkWithProxy(outcome) ==
    IF ~ProxyOk(outcome) THEN NoReason
    ELSE IF ProxyUnsafe(outcome) THEN "Matches proxy (Safe Browsing / feeds)"
    ELSE NoReason

----------------------------------------------------------------------------
(* Extension: caches *)

Evil == <<"evil", "com">>
Lure == <<"paypal-login", "com">>

\* hosts the extension's caches are keyed by
ExtHosts == {Evil, Lure}

NoHostEntry == [ts |-> -1]

\* part_004 setHostCacheEntry(host, safe, reason)
setHostCacheEntry(hc, host, safe, reason) ==
    [hc EXCEPT ![host] = [safe |-> safe, reason |-> reason, ts |-> now]]

EmptyHostCache == [h \in ExtHosts |-> NoHostEntry]

\* due: the set is in flight; rejected: the last set failed and was logged
NoWrite == [due |-> FALSE, obj |-> EmptyHostCache, rejected |-> FALSE]

\* persistHostCache(): the object built from the Map before the await; the
\* storage applies writes in the order they were issued, so only the newest
\* unapplied one is kept
persistSnapshot(hc) ==
    [h \in DOMAIN hc |->
        IF hc[h] = NoHostEntry THEN NoHostEntry
        ELSE [safe |-> hc[h].safe, reason |-> hc[h].reason, ts |-> hc[h].ts]]
persistHostCache(hc) ==
    pendingPersist' = [due |-> TRUE, obj |-> persistSnapshot(hc), rejected |-> FALSE]

----------------------------------------------------------------------------
(* Extension, part_004: the record sent to POST /log *)

NoUrl == Url(Null, "")

\* extra: null
NoExtra == [from |-> "", useSafeBrowsingOnly |-> FALSE]

\* a request body of POST /log without the timestamp and the tab id; host ""
\* and url NoUrl stand for a missing field
NoPayload ==
    [host |-> "", url |-> NoUrl, blocked |-> FALSE, reason |-> "",
     heuristicsOnly |-> FALSE, apiUsed |-> FALSE, event |-> "", extra |-> NoExtra]

\* sendLogToProxyHostOnly(logObj): the payload it posts (lines 190-200)
sendLogToProxyHostOnly(logObj) ==
    [host |-> logObj.host, url |-> NoUrl, blocked |-> logObj.blocked,
     reason |-> logObj.reason, heuristicsOnly |-> logObj.heuristicsOnly,
     apiUsed |-> logObj.apiUsed,
     event |-> IF logObj.event = "" THEN "visit" ELSE logObj.event,
     extra |-> logObj.extra]

\* mutant: the record names the whole target, host and path
navLogObj_fullUrl(n) ==
    [host |-> JoinDots(n.hostOnly) \o n.url.path, blocked |-> (n.reason # NoReason),
     reason |-> n.reason,
     heuristicsOnly |-> (n.reason # NoReason /\ ~useCloudLookup /\ ~useDirectLookup),
     apiUsed |-> n.apiUsed, event |-> "visit",
     extra |-> [from |-> "extension", useSafeBrowsingOnly |-> useSafeBrowsingOnly]]

\* the object onBeforeNavigate hands to sendLogToProxyHostOnly (lines 451-461)
navLogObj(n) ==
    [host |-> JoinDots(n.hostOnly), blocked |-> (n.reason # NoReason),
     reason |-> n.reason,
     heuristicsOnly |-> (n.reason # NoReason /\ ~useCloudLookup /\ ~useDirectLookup),
     apiUsed |-> n.apiUsed, event |-> "visit",
     extra |-> [from |-> "extension", useSafeBrowsingOnly |-> useSafeBrowsingOnly]]

----------------------------------------------------------------------------
(* Extension, part_004: onBeforeNavigate *)

NavUrls == {Url(Evil, "/login"), Url(Lure, "/")}

\* nav.pc: "so_direct" and "so_proxy" await the lookup of the
\* useSafeBrowsingOnly branch, "proxy" and "direct" those of the normal
\* branch; "done" once the handler returned.  redirected: chrome.tabs.update
\* sent the tab to warning.html.  safeOnly, allowlisted and trace record the
\* branch taken, whether the host was on the allowlist when the handler
\* started, and the layers consulted, in order.
IdleNav ==
    [pc |-> "idle", url |-> Url(Null, ""), hostOnly |-> Null, reason |-> NoReason,
     apiUsed |-> FALSE, redirected |-> FALSE, ignored |-> FALSE,
     safeOnly |-> FALSE, allowlisted |-> FALSE, trace |-> <<>>, log |-> NoPayload]

\* lines 445-471: log, then redirect to the warning page when there is a reason
NavFinish(n) ==
    [n EXCEPT !.pc = "done", !.redirected = (n.reason # NoReason),
              !.log = sendLogToProxyHostOnly(navLogObj(n))]

\* the handler up to its first await
onBeforeNavigate(url, frameId) ==
       LET hostOnly == hostnameFromUrl(url)
           n == [IdleNav EXCEPT !.url = url, !.hostOnly = hostOnly,
                                !.safeOnly = useSafeBrowsingOnly,
                                !.allowlisted = (hostOnly \in allowlist)]
       IN  IF frameId # 0 \/ ~enabled \/ IsWarningUrl(url)
           THEN nav' = [n EXCEPT !.pc = "done", !.ignored = TRUE]
           ELSE IF useSafeBrowsingOnly
           THEN IF useDirectLookup /\ directApiKey # ""
                THEN nav' = [n EXCEPT !.pc = "so_direct", !.trace = <<"safebrowsing">>]
                ELSE IF useCloudLookup
                THEN nav' = [n EXCEPT !.pc = "so_proxy", !.trace = <<"proxy">>]
                ELSE nav' = NavFinish([n EXCEPT !.reason = runHeuristics(url, TRUE),
                                                !.trace = <<"heuristics">>])
           ELSE LET reason == runHeuristics(url, FALSE)
                    m == [n EXCEPT !.reason = reason, !.trace = <<"blocklist">>]
                IN  IF reason = NoReason /\ useCloudLookup
                    THEN nav' = [m EXCEPT !.pc = "proxy", !.trace = Append(@, "proxy")]
                    ELSE IF reason = NoReason /\ useDirectLookup /\ directApiKey # ""
                    THEN nav' = [m EXCEPT !.pc = "direct", !.trace = Append(@, "safebrowsing")]
                    ELSE nav' = NavFinish(m)

\* a navigation of the tab reaches the handler
NavStart(url, frameId) ==
    /\ nav.pc \in {"idle", "done"}
    /\ onBeforeNavigate(url, frameId)
    /\ UNCHANGED <<settingVars, hostCache, hoverCache, hov, proxyVars, now, moreVars>>

\* the fetch of PROXY_CHECK_URL settles (lines 368-392 and 403-425)
NavProxyReturn(outcome) ==
    /\ nav.pc \in {"so_proxy", "proxy"}
    /\ LET unsafe == ProxyOk(outcome) /\ ProxyUnsafe(outcome)
           n == [nav EXCEPT
                   !.apiUsed = IF nav.pc = "so_proxy" /\ ProxyOk(outcome)
                               THEN ProxySbUsed(outcome) ELSE @,
                   !.reason = IF unsafe THEN "Matches proxy (feeds or Safe Browsing)" ELSE @]
       IN  /\ hostCache' =
                IF ~ProxyOk(outcome) THEN hostCache
                ELSE IF outcome = "feed"
                THEN setHostCacheEntry(hostCache, nav.hostOnly, FALSE, "Matched feed")
                ELSE IF outcome = "sb"
                THEN setHostCacheEntry(hostCache, nav.hostOnly, FALSE, "Proxy reported unsafe")
                ELSE setHostCacheEntry(hostCache, nav.hostOnly, TRUE, "")
           /\ IF ProxyOk(outcome) THEN persistHostCache(hostCache')
              ELSE UNCHANGED pendingPersist
           /\ IF nav.pc = "proxy" /\ n.reason = NoReason /\ useDirectLookup /\ directApiKey # ""
              THEN nav' = [n EXCEPT !.pc = "direct", !.trace = Append(@, "safebrowsing")]
              ELSE nav' = NavFinish(n)
    /\ UNCHANGED <<heur, logReq, persisted, persistTimer, hostHov, dnav, cfgVars, pageVars, toolVars>>
    /\ UNCHANGED <<settingVars, hoverCache, hov, proxyVars, now>>

\* checkWithSafeBrowsingDirect settles (lines 354-365 and 429-442)
NavDirectReturn(outcome) ==
    /\ nav.pc \in {"so_direct", "direct"}
    /\ LET directReason == checkWithSafeBrowsingDirect(CallKey, outcome)
       IN  /\ hostCache' =
                IF directReason # NoReason
                THEN setHostCacheEntry(hostCache, nav.hostOnly, FALSE, directReason)
                ELSE setHostCacheEntry(hostCache, nav.hostOnly, TRUE, "")
           /\ persistHostCache(hostCache')
           /\ nav' = NavFinish([nav EXCEPT !.apiUsed = TRUE,
                                           !.reason = IF directReason # NoReason
                                                      THEN directReason ELSE @])
    /\ UNCHANGED <<heur, logReq, persisted, persistTimer, hostHov, dnav, cfgVars, pageVars, toolVars>>
    /\ UNCHANGED <<settingVars, hoverCache, hov, proxyVars, now>>

\* the stored settings as the service worker holds them
SettingsRecord ==
    [enabled |-> enabled, allowlist |-> allowlist, useCloudLookup |-> useCloudLookup,
     useDirectLookup |-> useDirectLookup, directApiKey |-> directApiKey,
     useSafeBrowsingOnly |-> useSafeBrowsingOnly]

\* chrome.storage.onChanged (lines 488-498): one stored key was written and
\* the listener copies its new value
onEnabledChanged ==
    /\ enabled' = ~enabled
    /\ UNCHANGED <<allowlist, blocklist, useCloudLookup, useDirectLookup, directApiKey,
                   useSafeBrowsingOnly>>
onAllowlistChanged ==
    /\ allowlist' \in (SUBSET {Evil}) \ {allowlist}
    /\ UNCHANGED <<enabled, blocklist, useCloudLookup, useDirectLookup, directApiKey,
                   useSafeBrowsingOnly>>
onUseCloudLookupChanged ==
    /\ useCloudLookup' = ~useCloudLookup
    /\ UNCHANGED <<enabled, allowlist, blocklist, useDirectLookup, directApiKey,
                   useSafeBrowsingOnly>>
onUseDirectLookupChanged ==
    /\ useDirectLookup' = ~useDirectLookup
    /\ UNCHANGED <<enabled, allowlist, blocklist, useCloudLookup, directApiKey,
                   useSafeBrowsingOnly>>
onDirectApiKeyChanged ==
    /\ directApiKey' \in {"", "key"} \ {directApiKey}
    /\ UNCHANGED <<enabled, allowlist, blocklist, useCloudLookup, useDirectLookup,
                   useSafeBrowsingOnly>>
onUseSafeBrowsingOnlyChanged ==
    /\ useSafeBrowsingOnly' = ~useSafeBrowsingOnly
    /\ UNCHANGED <<enabled, allowlist, blocklist, useCloudLookup, useDirectLookup,
                   directApiKey>>

StorageChanged ==
    /\ \/ onEnabledChanged
       \/ onAllowlistChanged
       \/ onUseCloudLookupChanged
       \/ onUseDirectLookupChanged
       \/ onDirectApiKeyChanged
       \/ onUseSafeBrowsingOnlyChanged
    /\ stored' = SettingsRecord'
    /\ UNCHANGED <<hostCache, hoverCache, nav, hov, proxyVars, now>>
    /\ UNCHANGED <<heur, logReq, storeVars, changes, loaded, pageVars, toolVars>>

----------------------------------------------------------------------------
(* Extension, background.js:1-350: CHECK_URL_HOVER *)

HOVER_CACHE_TTL == 5 * 60 * 1000

HoverUrls == {Url(Evil, "/login"), Url(<<"shop", "tk">>, "/")}

NoHoverEntry == [ts |-> -1]

\* getHoverCached(url): the entry, or null after deleting an expired one
HoverExpired(v) == now - v.ts > HOVER_CACHE_TTL
getHoverCached(hv, url) ==
    IF hv[url] = NoHoverEntry \/ HoverExpired(hv[url]) THEN NoHoverEntry ELSE hv[url]
afterGetHoverCached(hv, url) ==
    IF hv[url] # NoHoverEntry /\ HoverExpired(hv[url])
    THEN [hv EXCEPT ![url] = NoHoverEntry] ELSE hv

\* setHoverCached(url, status, reason)
setHoverCached(hv, url, status, reason) ==
    [hv EXCEPT ![url] = [status |-> status, reason |-> reason, ts |-> now]]

\* hov.pc: "proxy" and "direct" await checkWithProxy and
\* checkWithSafeBrowsingDirect; "done" once sendResponse was called.  calls and
\* remoteFailed record the remote requests this check issued and whether one
\* of them came back non-OK or threw; allowlisted whether the host was on the
\* allowlist when the handler started.
IdleHov ==
    [pc |-> "idle", url |-> Url(Null, ""), status |-> "", reason |-> NoReason,
     cached |-> FALSE, calls |-> {}, remoteFailed |-> FALSE, allowlisted |-> FALSE]

HovRespond(h, status, reason, cached) ==
    [h EXCEPT !.pc = "done", !.status = status, !.reason = reason, !.cached = cached]

\* lines 233-235
HovSafe(h) ==
    /\ hoverCache' = setHoverCached(hoverCache, h.url, "safe", "")
    /\ hov' = HovRespond(h, "safe", NoReason, FALSE)

\* lines 224-231: start the direct lookup when it is configured, else answer safe
HovDirectOrSafe(h) ==
    IF useDirectLookup /\ directApiKey # ""
    THEN /\ hov' = [h EXCEPT !.pc = "direct", !.calls = @ \cup {"safebrowsing-direct"}]
         /\ UNCHANGED hoverCache
    ELSE HovSafe(h)

\* the handler up to its first await (lines 194-222)
HoverUrlStart(url) ==
    /\ hov.pc \in {"idle", "done"}
    /\ LET h == [IdleHov EXCEPT !.url = url,
                                !.allowlisted = (hostnameFromUrl(url) \in allowlist)]
           c == getHoverCached(hoverCache, url)
           hv == afterGetHoverCached(hoverCache, url)
           reason == runHeuristicsOn(url, FALSE, allowlist, blocklist)
       IN  IF c # NoHoverEntry
           THEN /\ hov' = HovRespond(h, c.status, c.reason, TRUE)
                /\ hoverCache' = hv
           ELSE IF reason # NoReason
           THEN /\ hoverCache' = setHoverCached(hv, url, "unsafe", reason)
                /\ hov' = HovRespond(h, "unsafe", reason, FALSE)
           ELSE IF useCloudLookup
           THEN /\ hov' = [h EXCEPT !.pc = "proxy", !.calls = @ \cup {"proxy-check"}]
                /\ hoverCache' = hv
           ELSE IF useDirectLookup /\ directApiKey # ""
           THEN /\ hov' = [h EXCEPT !.pc = "direct", !.calls = @ \cup {"safebrowsing-direct"}]
                /\ hoverCache' = hv
           ELSE /\ hoverCache' = setHoverCached(hv, url, "safe", "")
                /\ hov' = HovRespond(h, "safe", NoReason, FALSE)
    /\ UNCHANGED <<settingVars, hostCache, nav, proxyVars, now, moreVars>>

\* checkWithProxy settles (lines 215-221)
HoverProxyReturn(outcome) ==
    /\ hov.pc = "proxy"
    /\ LET cloudReason == checkWithProxy(outcome)
           h == [hov EXCEPT !.remoteFailed = @ \/ ~ProxyOk(outcome),
                            !.calls = IF ProxyOk(outcome) /\ ProxySbUsed(outcome)
                                      THEN @ \cup {"safebrowsing-via-proxy"} ELSE @]
       IN  IF cloudReason # NoReason
           THEN /\ hoverCache' = setHoverCached(hoverCache, hov.url, "unsafe", cloudReason)
                /\ hov' = HovRespond(h, "unsafe", cloudReason, FALSE)
           ELSE HovDirectOrSafe(h)
    /\ UNCHANGED <<settingVars, hostCache, nav, proxyVars, now, moreVars>>

\* checkWithSafeBrowsingDirect settles (lines 225-235)
HoverDirectReturn(outcome) ==
    /\ hov.pc = "direct"
    /\ LET directReason == checkWithSafeBrowsingDirect(CallKey, outcome)
           h == [hov EXCEPT !.remoteFailed = @ \/ outcome \in {"nonok", "throw"}]
       IN  IF directReason # NoReason
           THEN /\ hoverCache' = setHoverCached(hoverCache, hov.url, "unsafe", directReason)
                /\ hov' = HovRespond(h, "unsafe", directReason, FALSE)
           ELSE HovSafe(h)
    /\ UNCHANGED <<settingVars, hostCache, nav, proxyVars, now, moreVars>>

\* chrome.storage.onChanged of this file (lines 316-325)
StorageChangedHover ==
    /\ \/ onEnabledChanged
       \/ onAllowlistChanged
       \/ onUseCloudLookupChanged
       \/ onUseDirectLookupChanged
       \/ onDirectApiKeyChanged
    /\ stored' = SettingsRecord'
    /\ UNCHANGED <<hostCache, hoverCache, nav, hov, proxyVars, now>>
    /\ UNCHANGED <<heur, logReq, storeVars, changes, loaded, pageVars, toolVars>>

----------------------------------------------------------------------------
(* Proxy: POST /log *)

BoolStr(b) == IF b THEN "true" ELSE "false"

\* parts.filter(Boolean).join(' | ')
RECURSIVE JoinParts(_)
JoinParts(parts) ==
    IF parts = <<>> THEN ""
    ELSE LET rest == JoinParts(Tail(parts))
         IN  IF Head(parts) = "" THEN rest
             ELSE IF rest = "" THEN Head(parts)
             ELSE Head(parts) \o " | " \o rest

\* JSON.stringify(extra) of the object the extension sends
StringifyExtra(extra) ==
    "{\"from\":\"" \o extra.from \o "\",\"useSafeBrowsingOnly\":"
        \o BoolStr(extra.useSafeBrowsingOnly) \o "}"

\* String(body.host).toLowerCase()
LowerHostString(str) == IF str = "EVIL.com" THEN "evil.com" ELSE str

\* the host the handler prints (part_000:228-235, server.js:130-137)
logHost(body) ==
    IF body.host # "" THEN LowerHostString(body.host)
    ELSE IF body.url # NoUrl
    THEN IF body.url.host = Null THEN "<invalid-host>"
         ELSE JoinDots(hostnameFromUrl(body.url))
    ELSE "<no-host>"

\* the line printed and appended to navigation_hosts.log, without its
\* timestamp and tab parts; server.js prints no event and no apiUsed part
logLine(body) ==
    JoinParts(<<
        "[NAV]",
        IF srv = "part_000"
        THEN "event=" \o (IF body.event = "" THEN "visit" ELSE body.event) ELSE "",
        "host=" \o logHost(body),
        "blocked=" \o BoolStr(body.blocked),
        IF srv = "part_000" THEN "apiUsed=" \o BoolStr(body.apiUsed) ELSE "",
        IF body.reason # "" THEN "reason=" \o body.reason ELSE "",
        IF body.heuristicsOnly THEN "heuristicsOnly=true" ELSE "",
        IF body.extra # NoExtra THEN "extra=" \o StringifyExtra(body.extra) ELSE "" >>)

\* about: the URL the record is about; body: what was posted; line: what was printed
NoLogEntry == [about |-> NoUrl, body |-> NoPayload, line |-> ""]

NoLogReq == [prev |-> NoLogEntry, last |-> NoLogEntry]

\* the handler of POST /log
LogRequest(body, about) ==
    /\ logReq' = [prev |-> logReq.last,
                  last |-> [about |-> about, body |-> body, line |-> logLine(body)]]
    /\ UNCHANGED <<heur, storeVars, cfgVars, pageVars, toolVars>>
    /\ UNCHANGED <<settingVars, hostCache, hoverCache, nav, hov, proxyVars, now>>

\* the request sendLogToProxyHostOnly sent for the navigation just handled
\* reaches the proxy
PostNavLog ==
    /\ nav.pc = "done"
    /\ ~nav.ignored
    /\ LogRequest(nav.log, nav.url)

\* bodies of other clients: a url and no host, a host in capitals, nothing
OtherLogBodies ==
    {[NoPayload EXCEPT !.url = u] :
        u \in {Url(Evil, "/login"), Url(Evil, "/reset?token=abc"),
               Url(<<"Sub", "EVIL", "com">>, "/"), Url(Null, "/x")}}
    \cup {[NoPayload EXCEPT !.host = "EVIL.com"], NoPayload}

PostOtherLog(body) == LogRequest(body, body.url)

----------------------------------------------------------------------------
(* Extension, part_004: the persisted host cache and CHECK_HOST_HOVER *)

HOST_CHECK_TTL_MS == 60 * 60 * 1000

\* the clock step of the host-cache behaviours: one whole TTL, so that an
\* entry is seen at the ages 0, TTL and 2 * TTL
TickTtl ==
    /\ now < MaxTicks * HOST_CHECK_TTL_MS
    /\ now' = now + HOST_CHECK_TTL_MS
    /\ UNCHANGED <<proxyVars, extVars>>

\* !v.ts: the stored timestamp is the number 0
TsMissing(v) == v.ts + ProcessStartMs = 0

\* getHostCacheEntry(host): the entry, or null after deleting an expired one
HostExpired(e) == (now - e.ts) > HOST_CHECK_TTL_MS
getHostCacheEntry(hc, host) ==
    IF hc[host] = NoHostEntry \/ HostExpired(hc[host]) THEN NoHostEntry ELSE hc[host]
afterGetHostCacheEntry(hc, host) ==
    IF hc[host] # NoHostEntry /\ HostExpired(hc[host])
    THEN [hc EXCEPT ![host] = NoHostEntry] ELSE hc

\* chrome.storage.local.set resolves
PersistLands ==
    /\ pendingPersist.due
    /\ persisted' = pendingPersist.obj
    /\ pendingPersist' = NoWrite
    /\ UNCHANGED <<heur, logReq, persistTimer, hostHov, dnav, cfgVars, pageVars, toolVars>>
    /\ UNCHANGED <<settingVars, hostCache, hoverCache, nav, hov, proxyVars, now>>

\* chrome.storage.local.set rejects: the catch (part_004:52-54,
\* background.js:419-421) logs and nothing else happens
PersistFails ==
    /\ pendingPersist.due
    /\ pendingPersist' = [NoWrite EXCEPT !.rejected = TRUE]
    /\ UNCHANGED <<heur, logReq, persisted, persistTimer, hostHov, dnav, cfgVars, pageVars, toolVars>>
    /\ UNCHANGED <<settingVars, hostCache, hoverCache, nav, hov, proxyVars, now>>

\* loadPersistedHostCache(): what the Map holds after it, starting empty
loadPersistedHostCache(obj) ==
    [h \in DOMAIN obj |->
        IF obj[h] = NoHostEntry \/ TsMissing(obj[h]) THEN NoHostEntry
        ELSE IF (now - obj[h].ts) > HOST_CHECK_TTL_MS THEN NoHostEntry
        ELSE [safe |-> obj[h].safe, reason |-> obj[h].reason, ts |-> obj[h].ts]]

\* the browser stops the idle service worker and starts it again: the
\* module-level state is rebuilt and the initialization (lines 501-540) loads
\* the settings, which the model keeps in the same variables, and the
\* persisted host cache
WorkerRestart ==
    /\ hostHov.pc \in {"idle", "done"}
    /\ nav.pc \in {"idle", "done"}
    /\ hostCache' = loadPersistedHostCache(persisted)
    /\ hoverCache' = [k \in DOMAIN hoverCache |-> NoHoverEntry]
    /\ UNCHANGED <<heur, logReq, persisted, pendingPersist, persistTimer, hostHov, dnav, cfgVars, pageVars, toolVars>>
    /\ UNCHANGED <<settingVars, nav, hov, proxyVars, now>>

\* what the fetch of PROXY_CHECK_HOST can bring: json.unsafe (with no
\* matchedHost other than the host asked), not unsafe, a non-OK status, or
\* no response at all
HostProxyOutcomes == {"unsafe", "safe", "nonok", "throw"}

\* checkHostWithProxy(host)
checkHostWithProxy(host, outcome) ==
    IF outcome = "unsafe" THEN "Matched feed host: " \o JoinDots(host) ELSE NoReason

\* msg.host of the hover messages
HoverHosts == {<<"EVIL", "com">>, Lure, Null}

\* hostHov.pc: "proxy" awaits checkHostWithProxy, "done" once sendResponse
\* was called.  expiredTs: the ts of the entry getHostCacheEntry found expired
\* in this call, else -1.
IdleHostHov ==
    [pc |-> "idle", host |-> Null, status |-> "", reason |-> NoReason,
     cached |-> FALSE, expiredTs |-> -1]

HostHovRespond(h, status, reason, cached) ==
    [h EXCEPT !.pc = "done", !.status = status, !.reason = reason, !.cached = cached]

\* lines 271-272, 291-292 and 309-310
HostHovSettle(hc, h, safe, reason) ==
    /\ hostCache' = setHostCacheEntry(hc, h.host, safe, reason)
    /\ persistHostCache(hostCache')
    /\ hoverCache' = setHoverCached(hoverCache, h.host, IF safe THEN "safe" ELSE "unsafe", reason)
    /\ hostHov' = HostHovRespond(h, IF safe THEN "safe" ELSE "unsafe", reason, FALSE)

\* the handler up to its first await (lines 226-289)
HostHoverStart(msgHost) ==
    /\ hostHov.pc \in {"idle", "done"}
    /\ LET host == toLowerCase(msgHost)
           h == [IdleHostHov EXCEPT !.host = host]
       IN  IF host = Null
           THEN /\ hostHov' = HostHovRespond(h, "unknown", "no host", FALSE)
                /\ UNCHANGED <<hostCache, hoverCache, pendingPersist>>
           ELSE IF host \in allowlist
           THEN /\ hoverCache' = setHoverCached(hoverCache, host, "safe", "allowlist")
                /\ hostHov' = HostHovRespond(h, "safe", "allowlist", FALSE)
                /\ UNCHANGED <<hostCache, pendingPersist>>
           ELSE LET cachedHost == getHostCacheEntry(hostCache, host)
                    hc == afterGetHostCacheEntry(hostCache, host)
                    g == [h EXCEPT !.expiredTs = IF hc # hostCache THEN hostCache[host].ts ELSE -1]
                    reason == runHeuristics(Url(host, "/"), useSafeBrowsingOnly)
                IN  IF cachedHost # NoHostEntry
                    THEN /\ hostHov' = HostHovRespond(g, IF cachedHost.safe THEN "safe" ELSE "unsafe",
                                                      cachedHost.reason, TRUE)
                         /\ UNCHANGED <<hostCache, hoverCache, pendingPersist>>
                    ELSE IF reason # NoReason
                    THEN HostHovSettle(hc, g, FALSE, reason)
                    ELSE IF useCloudLookup /\ ~useSafeBrowsingOnly
                    THEN /\ hostHov' = [g EXCEPT !.pc = "proxy"]
                         /\ hostCache' = hc
                         /\ UNCHANGED <<hoverCache, pendingPersist>>
                    ELSE HostHovSettle(hc, g, TRUE, "")
    /\ UNCHANGED <<heur, logReq, persisted, persistTimer, dnav, cfgVars, pageVars, toolVars>>
    /\ UNCHANGED <<settingVars, nav, hov, proxyVars, now>>

\* checkHostWithProxy settles (lines 289-321)
HostHoverProxyReturn(outcome) ==
    /\ hostHov.pc = "proxy"
    /\ LET hostReason == checkHostWithProxy(hostHov.host, outcome)
       IN  IF hostReason # NoReason
           THEN HostHovSettle(hostCache, hostHov, FALSE, hostReason)
           ELSE HostHovSettle(hostCache, hostHov, TRUE, "")
    /\ UNCHANGED <<heur, logReq, persisted, persistTimer, dnav, cfgVars, pageVars, toolVars>>
    /\ UNCHANGED <<settingVars, nav, hov, proxyVars, now>>

----------------------------------------------------------------------------
(* Extension, background.js:351-650: the host cache of the direct variant *)

HOST_CACHE_TTL_MS == 60 * 60 * 1000

\* normalizeHost(h) on a host name: lower-case, a leading "www." removed
normalizeHost(h) ==
    LET l == toLowerCase(h)
    IN  IF Len(l) > 1 /\ l[1] = "www" THEN Tail(l) ELSE l

\* setHostCacheEntry(host, safe, reason, source): the Map after it
setHostCacheEntryDirect(hc, host, safe, reason, source) ==
    [hc EXCEPT ![normalizeHost(host)] =
        [safe |-> safe, reason |-> reason, ts |-> now, source |-> source]]

\* getHostCacheEntry(host): the entry, or null after deleting an expired one
DirectExpired(e) == (now - e.ts) > HOST_CACHE_TTL_MS
getHostCacheEntryDirect(hc, host) ==
    LET n == normalizeHost(host)
    IN  IF hc[n] = NoHostEntry \/ DirectExpired(hc[n]) THEN NoHostEntry ELSE hc[n]
afterGetHostCacheEntryDirect(hc, host) ==
    LET n == normalizeHost(host)
    IN  IF hc[n] # NoHostEntry /\ DirectExpired(hc[n])
        THEN [hc EXCEPT ![n] = NoHostEntry] ELSE hc

\* the callback of persistHostCacheDebounced runs (lines 413-422): it copies
\* the Map as it is then and issues the write
persistTimerFired_keepsOlderWrite ==
    /\ persistTimer
    /\ persistTimer' = FALSE
    /\ pendingPersist' = IF pendingPersist.due THEN pendingPersist
                         ELSE [due |-> TRUE, obj |-> hostCache, rejected |-> FALSE]
    /\ UNCHANGED <<heur, logReq, persisted, hostHov, dnav, cfgVars, pageVars, toolVars>>
    /\ UNCHANGED <<settingVars, hostCache, hoverCache, nav, hov, proxyVars, now>>

persistTimerFired ==
    /\ persistTimer
    /\ persistTimer' = FALSE
    /\ pendingPersist' = [due |-> TRUE, obj |-> hostCache, rejected |-> FALSE]
    /\ UNCHANGED <<heur, logReq, persisted, hostHov, dnav, cfgVars, pageVars, toolVars>>
    /\ UNCHANGED <<settingVars, hostCache, hoverCache, nav, hov, proxyVars, now>>

\* loadPersistedHostCache(): what the Map holds after it, starting empty
loadPersistedHostCacheDirect(raw) ==
    [k \in DOMAIN raw |->
        IF raw[k] # NoHostEntry /\ ~TsMissing(raw[k]) /\ (now - raw[k].ts) < HOST_CACHE_TTL_MS
        THEN raw[k] ELSE NoHostEntry]

\* dnav.pc: "gsb" awaits callSafeBrowsingDirect, "done" once the handler
\* returned.  redirected: safeUpdateTab sent the tab to warning.html.
\* expiredTs: the ts of the entry getHostCacheEntry found expired, else -1.
\* hadSafe: the blocklist branch ran while the Map held an unexpired safe
\* entry for the host.
IdleDnav ==
    [pc |-> "idle", hostOnly |-> Null, redirected |-> FALSE,
     reason |-> NoReason, source |-> "", ignored |-> FALSE, expiredTs |-> -1,
     hadSafe |-> FALSE]

\* the browser stops the idle service worker (the 300 ms timer has long run)
\* and starts it again: init() (lines 644-651) loads the persisted host cache
\* into the empty Map
WorkerRestartDirect ==
    /\ dnav.pc \in {"idle", "done"}
    /\ ~persistTimer
    /\ hostCache' = loadPersistedHostCacheDirect(persisted)
    /\ hoverCache' = [k \in DOMAIN hoverCache |-> NoHoverEntry]
    /\ UNCHANGED <<heur, logReq, persisted, pendingPersist, persistTimer, hostHov, dnav, cfgVars, pageVars, toolVars>>
    /\ UNCHANGED <<settingVars, nav, hov, proxyVars, now>>

DirectNavUrls == {Url(<<"www", "evil", "com">>, "/login"), Url(Lure, "/")}

\* mutant: a URL that cannot be parsed is blocked
dnavParseFailed_blocks(d) ==
    [d EXCEPT !.pc = "done", !.redirected = TRUE, !.reason = "Invalid URL"]

\* new URL(urlStr) throws (line 552): the catch of the handler (lines 614-617)
\* logs and returns
dnavParseFailed(d) == [d EXCEPT !.pc = "done"]

\* setHostCacheEntry and the end of the handler, redirecting when unsafe
DnavSettle(hc, d, safe, reason, source) ==
    /\ hostCache' = setHostCacheEntryDirect(hc, d.hostOnly, safe, reason, source)
    /\ persistTimer' = TRUE
    /\ dnav' = [d EXCEPT !.pc = "done", !.redirected = ~safe, !.reason = reason,
                         !.source = source]

\* the packaged blocklist read where the host cache is read first
onPackagedBlocklist_afterCache(hostOnly) ==
    hostOnly \in blocklist /\ getHostCacheEntryDirect(hostCache, hostOnly) = NoHostEntry

\* blocklist.includes(hostOnly) (line 563), before getHostCacheEntry (line 572)
onPackagedBlocklist(hostOnly) == hostOnly \in blocklist

\* loadPackagedBlocklist() of init (lines 460-484, 645) has read blocklist.json
PackagedBlocklist == {Lure}
loadPackagedBlocklist ==
    /\ blocklist # PackagedBlocklist
    /\ blocklist' = PackagedBlocklist
    /\ UNCHANGED <<enabled, allowlist, useCloudLookup, useDirectLookup, directApiKey,
                   useSafeBrowsingOnly>>
    /\ UNCHANGED <<hostCache, hoverCache, nav, hov, proxyVars, now, moreVars>>

\* the handler up to the call of callSafeBrowsingDirect (lines 545-595); the
\* chrome.storage.local.get calls before it answer at once
DirectNavStart(url, frameId) ==
    /\ dnav.pc \in {"idle", "done"}
    /\ LET hostOnly == normalizeHost(hostnameFromUrl(url))
           d == [IdleDnav EXCEPT !.hostOnly = hostOnly]
           cached == getHostCacheEntryDirect(hostCache, hostOnly)
           hc == afterGetHostCacheEntryDirect(hostCache, hostOnly)
           g == [d EXCEPT !.expiredTs = IF hc # hostCache THEN hostCache[hostOnly].ts ELSE -1]
       IN  IF frameId # 0 \/ ~enabled
           THEN /\ dnav' = [d EXCEPT !.pc = "done", !.ignored = TRUE]
                /\ UNCHANGED <<hostCache, persistTimer>>
           ELSE IF hostnameFromUrl(url) = Null
           THEN /\ dnav' = dnavParseFailed(d)
                /\ UNCHANGED <<hostCache, persistTimer>>
           ELSE IF hostOnly \in {normalizeHost(a) : a \in allowlist}
           THEN /\ dnav' = [d EXCEPT !.pc = "done"]
                /\ UNCHANGED <<hostCache, persistTimer>>
           ELSE IF onPackagedBlocklist(hostOnly)
           THEN DnavSettle(hostCache,
                           [d EXCEPT !.hadSafe = (cached # NoHostEntry /\ cached.safe)],
                           FALSE, "Domain is on the packaged blocklist", "local-blocklist")
           ELSE IF cached # NoHostEntry
           THEN /\ dnav' = [g EXCEPT !.pc = "done", !.redirected = ~cached.safe,
                                     !.reason = cached.reason, !.source = cached.source]
                /\ UNCHANGED <<hostCache, persistTimer>>
           ELSE IF directApiKey = ""
           THEN DnavSettle(hc, g, TRUE, "", "no-api-key")
           ELSE /\ dnav' = [g EXCEPT !.pc = "gsb"]
                /\ hostCache' = hc
                /\ persistTimer' = (persistTimer \/ hc # hostCache)
    /\ UNCHANGED <<heur, logReq, persisted, pendingPersist, hostHov, cfgVars, pageVars, toolVars>>
    /\ UNCHANGED <<settingVars, hoverCache, nav, hov, proxyVars, now>>

\* callSafeBrowsingDirect settles (lines 595-612)
DirectNavReturn(outcome) ==
    /\ dnav.pc = "gsb"
    /\ IF outcome \in {"nonok", "throw"}
       THEN DnavSettle(hostCache, dnav, TRUE, "", "gsb-error")
       ELSE IF outcome = "match"
       THEN DnavSettle(hostCache, dnav, FALSE, "Matches Google Safe Browsing", "safebrowsing")
       ELSE DnavSettle(hostCache, dnav, TRUE, "", "safebrowsing")
    /\ UNCHANGED <<heur, logReq, persisted, pendingPersist, hostHov, cfgVars, pageVars, toolVars>>
    /\ UNCHANGED <<settingVars, hoverCache, nav, hov, proxyVars, now>>

(* The content script, content_script.js:1-275 (part_002 is the same code   *)
(* with a source field; part_003 checks whole URLs the same way)            *)

MaxSends == 2       \* promises of safeSendMessage alive at once

\* const CACHE_TTL_MS of the content script (line 15)
CS_CACHE_TTL_MS == 5 * 60 * 1000

\* what the pointer can be over: nothing of the page, an element that is no
\* link, and three links
CsElements == {"outside", "text", "linkEvil", "linkLure", "linkBad"}

\* findLinkElement(ev.target) (lines 164-170)
findLinkElement(el) == el \in {"linkEvil", "linkLure", "linkBad"}

\* the href of the link resolved and hostnameOf of it (lines 196-216, 72-78):
\* null when new URL throws
hostnameOf(el) ==
    CASE el = "linkEvil" -> toLowerCase(<<"EVIL", "com">>)
      [] el = "linkLure" -> toLowerCase(Lure)
      [] OTHER -> Null

CsHosts == {Evil, Lure}

NoCsEntry == [ts |-> -1]

\* the page before any event: the badge was created with display none.
\* sent: what the last hover timer callback sent, as <<host, element under
\* the pointer>>, or <<>> when it sent nothing
CsDefaults ==
    [pointer |-> "outside", hoverTimer |-> Null, timers |-> <<>>,
     lastHostChecked |-> Null,
     display |-> "none", opacity |-> 0, text |-> "", forHost |-> Null,
     hidePending |-> FALSE, sent |-> <<>>,
     cache |-> [h \in CsHosts |-> NoCsEntry]]

\* one promise of safeSendMessage.  cb: the response callback is "pending",
\* was "called", or will "never" be called (sendMessage threw); timer: the
\* setTimeout of line 119 is pending; resolves counts the calls of resolve.
\* Once the callback and the timer are both behind it, nothing refers to
\* the promise any more: only the number of its resolutions is kept.
NoSend == [host |-> Null, resolves |-> 0, over |-> FALSE]
NoSends == [i \in 1..MaxSends |-> NoSend]

NewSend(host) ==
    [host |-> host, settled |-> FALSE, cb |-> "pending", timer |-> TRUE,
     resolves |-> 0, value |-> "", over |-> FALSE]

SendDead(p) == p.host = Null

\* the promise after a step of its callback or timer
SendAfter(p) ==
    IF p.cb # "pending" /\ ~p.timer
    THEN [host |-> Null, resolves |-> p.resolves, over |-> TRUE]
    ELSE p

\* sequences: s without its first element equal to x
RECURSIVE WithoutFirst(_, _)
WithoutFirst(s, x) ==
    IF s = <<>> THEN <<>>
    ELSE IF Head(s) = x THEN Tail(s)
    ELSE <<Head(s)>> \o WithoutFirst(Tail(s), x)

\* showBadgeAt(x, y, text, color) (lines 41-61); forHost is the host whose
\* verdict the text is, Null for 'Unknown' and 'Checking'
showBadgeAt(c, text, host) ==
    [c EXCEPT !.text = text, !.display = "block", !.opacity = 1, !.forHost = host]

\* hideBadge() (lines 63-70): fades at once, display none after 150 ms
hideBadge(c) == [c EXCEPT !.opacity = 0, !.hidePending = TRUE]

\* if (hoverTimer) { clearTimeout(hoverTimer); hoverTimer = null; }
clearHoverTimer(c) ==
    IF c.hoverTimer # Null
    THEN [c EXCEPT !.timers = WithoutFirst(@, c.hoverTimer), !.hoverTimer = Null]
    ELSE c

\* if (hoverTimer) clearTimeout(hoverTimer); hoverTimer = setTimeout(...)
\* (lines 223-224)
setHoverTimer(c, host) ==
    [c EXCEPT !.timers = Append(WithoutFirst(@, c.hoverTimer), host), !.hoverTimer = host]

\* the mouseover listener (lines 187-243)
mouseover(c, target) ==
    LET host == hostnameOf(target)
    IN  IF ~findLinkElement(target) THEN hideBadge(clearHoverTimer(c))
        ELSE IF host = Null THEN showBadgeAt(c, "Unknown", Null)
        ELSE IF host = c.lastHostChecked /\ c.display = "block"
        THEN showBadgeAt(c, c.text, c.forHost)
        ELSE setHoverTimer(c, host)

\* mutant: mouseout hides the badge and leaves the timer
mouseout_keepsTimer(c) == hideBadge(c)

\* the mouseout, pagehide and visibilitychange (hidden) listeners
\* (lines 246-271)
mouseout(c) == hideBadge(clearHoverTimer(c))

\* getCached(key) and the Map after it (lines 80-88)
CsExpired(v) == now - v.ts > CS_CACHE_TTL_MS
getCached(c, key) ==
    IF c.cache[key] = NoCsEntry \/ CsExpired(c.cache[key]) THEN NoCsEntry ELSE c.cache[key]
afterGetCached(c, key) ==
    IF c.cache[key] # NoCsEntry /\ CsExpired(c.cache[key])
    THEN [c EXCEPT !.cache[key] = NoCsEntry] ELSE c

\* setCached(key, value) (lines 89-92)
setCached(c, key, status, reason) ==
    [c EXCEPT !.cache[key] = [status |-> status, reason |-> reason, ts |-> now]]

statusText(status) ==
    CASE status = "safe" -> "SAFE" [] status = "unsafe" -> "UNSAFE" [] OTHER -> "UNKNOWN"

\* what the background answers to CHECK_HOST_HOVER, as the callback sees it:
\* a response with a status, or chrome.runtime.lastError
CsAnswers == {"safe", "unsafe", "lastError"}

\* checkHost after its await and the timer callback after its own
\* (lines 139-154, 238-241): value is what the promise resolved with
afterCheckHost(c, host, value) ==
    LET status == IF value \in {"safe", "unsafe"} THEN value ELSE "unknown"
        reason == CASE value \in {"safe", "unsafe"} -> ""
                    [] value = "none" -> "no-response"
                    [] OTHER -> value
    IN  showBadgeAt(setCached(c, host, status, reason), statusText(status), host)

\* mutant: the timer of safeSendMessage resolves without looking at settled
settleOnce_always(p, value) ==
    [p EXCEPT !.settled = TRUE, !.resolves = @ + 1, !.value = value]

\* if (settled) return; settled = true; resolve(value) (lines 102-103,
\* 113-114, 120-122)
settleOnce(p, value) ==
    IF p.settled THEN p
    ELSE [p EXCEPT !.settled = TRUE, !.resolves = @ + 1, !.value = value]

FreeSlots == {i \in 1..MaxSends : SendDead(sends[i])}

\* the pointer goes from one element to another: mouseout of the old one,
\* then mouseover of the new one
PointerMoves(to) ==
    /\ to # cs.pointer
    /\ LET left == IF cs.pointer # "outside" THEN mouseout(cs) ELSE cs
           entered == IF to # "outside" THEN mouseover(left, to) ELSE left
       IN  cs' = [entered EXCEPT !.pointer = to]
    /\ UNCHANGED <<sends, proxyVars, now, settingVars, hostCache, hoverCache, nav, hov>>
    /\ UNCHANGED <<heur, logReq, storeVars, cfgVars, popup, warning, toolVars>>

\* pagehide, or visibilitychange to hidden (lines 253-271)
PageHidden ==
    /\ cs' = mouseout(cs)
    /\ UNCHANGED <<sends, proxyVars, now, settingVars, hostCache, hoverCache, nav, hov>>
    /\ UNCHANGED <<heur, logReq, storeVars, cfgVars, popup, warning, toolVars>>

\* the setTimeout of hideBadge fires (lines 67-69)
HideTimerFires ==
    /\ cs.hidePending
    /\ cs' = [cs EXCEPT !.display = "none", !.hidePending = FALSE]
    /\ UNCHANGED <<sends, proxyVars, now, settingVars, hostCache, hoverCache, nav, hov>>
    /\ UNCHANGED <<heur, logReq, storeVars, cfgVars, popup, warning, toolVars>>

\* the hover timer set for host fires (lines 224-242), up to the await of
\* safeSendMessage; throws: chrome.runtime.sendMessage throws at once, the
\* promise resolves in the catch and checkHost goes on in the same task
HoverTimerFires(k, throws) ==
    /\ k \in 1..Len(cs.timers)
    /\ LET host == cs.timers[k]
           c0 == [cs EXCEPT !.hoverTimer = Null, !.sent = <<>>,
                            !.timers = SubSeq(@, 1, k - 1) \o SubSeq(@, k + 1, Len(@)),
                            !.lastHostChecked = host]
           cached == getCached(c0, host)
           c1 == afterGetCached(c0, host)
           c2 == [showBadgeAt(c1, "Checking", Null) EXCEPT !.sent = <<host, cs.pointer>>]
           i == CHOOSE j \in FreeSlots : \A m \in FreeSlots : j <= m
       IN  IF cached # NoCsEntry
           THEN /\ ~throws
                /\ cs' = showBadgeAt(c1, statusText(cached.status), host)
                /\ UNCHANGED sends
           ELSE /\ FreeSlots # {}
                /\ IF throws
                   THEN /\ sends' = [sends EXCEPT ![i] =
                                        [settleOnce(NewSend(host), "context invalidated")
                                            EXCEPT !.cb = "never"]]
                        /\ cs' = afterCheckHost(c2, host, "context invalidated")
                   ELSE /\ sends' = [sends EXCEPT ![i] = NewSend(host)]
                        /\ cs' = c2
    /\ UNCHANGED <<proxyVars, now, settingVars, hostCache, hoverCache, nav, hov>>
    /\ UNCHANGED <<heur, logReq, storeVars, cfgVars, popup, warning, toolVars>>

\* the callback given to chrome.runtime.sendMessage is called (lines 101-109)
SendCallback(i, answer) ==
    /\ sends[i].host # Null /\ sends[i].cb = "pending"
    /\ LET p == sends[i]
           q == settleOnce(p, answer)
       IN  /\ sends' = [sends EXCEPT ![i] = SendAfter([q EXCEPT !.cb = "called"])]
           /\ cs' = IF q.resolves # p.resolves THEN afterCheckHost(cs, p.host, answer) ELSE cs
    /\ UNCHANGED <<proxyVars, now, settingVars, hostCache, hoverCache, nav, hov>>
    /\ UNCHANGED <<heur, logReq, storeVars, cfgVars, popup, warning, toolVars>>

\* the timeout timer of safeSendMessage fires (lines 119-123)
SendTimeout(i) ==
    /\ sends[i].host # Null /\ sends[i].timer
    /\ LET p == sends[i]
           q == settleOnce(p, "timeout")
       IN  /\ sends' = [sends EXCEPT ![i] = SendAfter([q EXCEPT !.timer = FALSE])]
           /\ cs' = IF q.resolves # p.resolves THEN afterCheckHost(cs, p.host, "timeout") ELSE cs
    /\ UNCHANGED <<proxyVars, now, settingVars, hostCache, hoverCache, nav, hov>>
    /\ UNCHANGED <<heur, logReq, storeVars, cfgVars, popup, warning, toolVars>>

\* the mousemove listener (lines 176-184): a badge with display block is
\* shown again at the pointer
MouseMove ==
    /\ cs.pointer # "outside"
    /\ cs.display = "block"
    /\ cs' = showBadgeAt(cs, cs.text, cs.forHost)
    /\ cs' # cs
    /\ UNCHANGED <<sends, proxyVars, now, settingVars, hostCache, hoverCache, nav, hov>>
    /\ UNCHANGED <<heur, logReq, storeVars, cfgVars, popup, warning, toolVars>>

\* the popup (popup.js:127) before DOMContentLoaded
ClosedPopup ==
    [open |-> FALSE, useCloud |-> FALSE, useSafeOnly |-> FALSE, apiKey |-> "",
     apiKeyDisabled |-> FALSE, ops |-> <<>>, list |-> {}]

\* a data file that does not exist
NoCsv == [exists |-> FALSE, text |-> <<>>]
NoHostsFile == [exists |-> FALSE, hosts |-> {}]

\* no data files and no run of update_urlhaus.js yet
NoUpdate ==
    [ran |-> FALSE, shouldDownload |-> FALSE, fetched |-> FALSE, served |-> <<>>,
     fetchOk |-> FALSE, exitCode |-> 0, csv |-> NoCsv, hostsFile |-> NoHostsFile]

\* warning.html with no click being handled
IdleWarning == [pc |-> "idle", url |-> Url(Null, ""), host |-> Null, list |-> {}]

\* nothing persisted, nothing being handled, the settings loaded
StoreDefaults ==
    /\ persisted = EmptyHostCache
    /\ pendingPersist = NoWrite
    /\ persistTimer = FALSE
    /\ hostHov = IdleHostHov
    /\ dnav = IdleDnav
    /\ logReq = NoLogReq
    /\ stored = SettingsRecord
    /\ changes = <<>>
    /\ loaded = TRUE
    /\ popup = ClosedPopup
    /\ cs = CsDefaults
    /\ sends = NoSends
    /\ warning = IdleWarning
    /\ upd = NoUpdate

----------------------------------------------------------------------------
(* Initial values *)

\* part_000:40-44 and no refresh requested yet
FeedDefaults ==
    /\ runs = NoRuns
    /\ lastFeedUpdateTs = 0 - ProcessStartMs
    /\ intervalsFired = 0
    /\ feedRet = NoFeedRet
    /\ refresh = NoRefresh

\* the module-level defaults of the service worker (part_004:13-36)
ExtDefaults ==
    /\ enabled = TRUE
    /\ allowlist = {}
    /\ blocklist = {}
    /\ useCloudLookup = FALSE
    /\ useDirectLookup = FALSE
    /\ directApiKey = ""
    /\ useSafeBrowsingOnly = FALSE
    /\ hostCache = [h \in ExtHosts |-> NoHostEntry]
    /\ hoverCache = [u \in HoverUrls |-> NoHoverEntry]
    /\ nav = IdleNav
    /\ hov = IdleHov
    /\ heur = NoHeur
    /\ StoreDefaults

----------------------------------------------------------------------------
(* The proxy *)

Init ==
    /\ srv = "part_000"
    /\ phishtankKey \in BOOLEAN
    /\ feedHostSet = {}
    /\ cache = [u \in CheckUrls |-> NoEntry]
    /\ now = 0
    /\ chk = IdleChk
    /\ okResp = NoResp
    /\ hostResp = NoHostResp
    /\ FeedDefaults
    /\ ExtDefaults

Next ==
    \/ \E open \in OpenPhishOutcomes, local \in LocalFileOutcomes : updateFeeds(open, local)
    \/ \E url \in CheckUrls : CheckRequest(url)
    \/ \E outcome \in SbOutcomes : CheckSafeBrowsing(outcome)
    \/ \E outcome \in PtOutcomes : CheckPhishTank(outcome)
    \/ Tick

Spec == Init /\ [][Next]_vars

\* server.js: the same handler over the URLhaus host list
InitUrlhaus ==
    /\ srv = "server_js"
    /\ phishtankKey \in BOOLEAN
    /\ feedHostSet = {}
    /\ cache = [u \in CheckUrls |-> NoEntry]
    /\ now = 0
    /\ chk = IdleChk
    /\ okResp = NoResp
    /\ hostResp = NoHostResp
    /\ FeedDefaults
    /\ ExtDefaults

NextUrlhaus ==
    \/ \E local \in LocalFileOutcomes : loadUrlhausHosts(local)
    \/ \E url \in CheckUrls : CheckRequest(url)
    \/ \E outcome \in SbOutcomes : CheckSafeBrowsing(outcome)
    \/ \E outcome \in PtOutcomes : CheckPhishTank(outcome)
    \/ Tick

SpecUrlhaus == InitUrlhaus /\ [][NextUrlhaus]_vars

----------------------------------------------------------------------------
(* The host matcher alone: feeds are refreshed and hosts are asked of /checkHost *)

InitMatch ==
    /\ srv = "part_000"
    /\ phishtankKey = FALSE
    /\ feedHostSet = {}
    /\ cache = [u \in CheckUrls |-> NoEntry]
    /\ now = 0
    /\ chk = IdleChk
    /\ okResp = NoResp
    /\ hostResp = NoHostResp
    /\ FeedDefaults
    /\ ExtDefaults

NextMatch ==
    \/ \E open \in OpenPhishOutcomes, local \in LocalFileOutcomes : updateFeeds(open, local)
    \/ \E q \in QueryHosts : CheckHost(q)

SpecMatch == InitMatch /\ [][NextMatch]_vars

----------------------------------------------------------------------------
(* part_000: feed refreshes next to host lookups *)

FeedQueryHosts == {<<"Sub", "EVIL", "com">>}

\* the startup IIFE has called updateFeeds
InitFeeds ==
    /\ srv = "part_000"
    /\ phishtankKey = FALSE
    /\ feedHostSet = {}
    /\ cache = [u \in CheckUrls |-> NoEntry]
    /\ now = 0
    /\ chk = IdleChk
    /\ okResp = NoResp
    /\ hostResp = NoHostResp
    /\ runs = [NoRuns EXCEPT !["startup"] = 1]
    /\ lastFeedUpdateTs = 0 - ProcessStartMs
    /\ intervalsFired = 0
    /\ feedRet = NoFeedRet
    /\ refresh = NoRefresh
    /\ ExtDefaults

NextFeeds ==
    \/ \E t \in Triggers, open \in OpenPhishOutcomes, local \in LocalFileOutcomes :
          updateFeedsSettled(t, open, local)
    \/ IntervalFire
    \/ RefreshFeeds
    \/ \E q \in FeedQueryHosts : CheckHost(q)
    \/ Tick
    \/ TickShort

SpecFeeds == InitFeeds /\ [][NextFeeds]_vars

\* the same at one instant: refreshes settling between host lookups
NextSnapshot ==
    \/ \E t \in Triggers, open \in OpenPhishOutcomes, local \in LocalFileOutcomes :
          updateFeedsSettled(t, open, local)
    \/ RefreshFeeds
    \/ \E q \in FeedQueryHosts : CheckHost(q)

SpecSnapshot == InitFeeds /\ [][NextSnapshot]_vars

----------------------------------------------------------------------------
(* The extension; the proxy is its environment and stays as constructed *)

ProxyDefaults ==
    /\ srv = "part_000"
    /\ phishtankKey = FALSE
    /\ feedHostSet = {}
    /\ cache = [u \in CheckUrls |-> NoEntry]
    /\ chk = IdleChk
    /\ okResp = NoResp
    /\ hostResp = NoHostResp
    /\ FeedDefaults

\* the settings after the worker's startup load (part_004:501-531): whatever
\* chrome.storage.local and blocklist.json hold
LoadedSettings ==
    /\ enabled \in BOOLEAN
    /\ allowlist \in SUBSET {Evil}
    /\ blocklist \in SUBSET {Evil}
    /\ useCloudLookup \in BOOLEAN
    /\ useDirectLookup \in BOOLEAN
    /\ directApiKey \in {"", "key"}

\* part_004: navigations
InitNav ==
    /\ ProxyDefaults
    /\ now = 0
    /\ LoadedSettings
    /\ useSafeBrowsingOnly \in BOOLEAN
    /\ hostCache = [h \in ExtHosts |-> NoHostEntry]
    /\ hoverCache = [u \in HoverUrls |-> NoHoverEntry]
    /\ nav = IdleNav
    /\ hov = IdleHov
    /\ heur = NoHeur
    /\ StoreDefaults

NextNav ==
    \/ \E url \in NavUrls, frameId \in {0, 1} : NavStart(url, frameId)
    \/ \E outcome \in ProxyOutcomes : NavProxyReturn(outcome)
    \/ \E outcome \in DirectOutcomes : NavDirectReturn(outcome)
    \/ StorageChanged

SpecNav == InitNav /\ [][NextNav]_vars

\* part_004 and either proxy file: navigations to two URLs of one host and
\* to a third one, each followed or not by its POST /log, and the requests of
\* other clients; the settings stay as loaded
LogNavUrls == {Url(Evil, "/login"), Url(Evil, "/reset?token=abc"), Url(Lure, "/")}

InitLog ==
    /\ srv \in {"part_000", "server_js"}
    /\ phishtankKey = FALSE
    /\ feedHostSet = {}
    /\ cache = [u \in CheckUrls |-> NoEntry]
    /\ chk = IdleChk
    /\ okResp = NoResp
    /\ hostResp = NoHostResp
    /\ FeedDefaults
    /\ now = 0
    /\ enabled = TRUE
    /\ allowlist = {}
    /\ blocklist = {}
    /\ useCloudLookup \in BOOLEAN
    /\ useDirectLookup \in BOOLEAN
    /\ directApiKey = CallKey
    /\ useSafeBrowsingOnly \in BOOLEAN
    /\ hostCache = EmptyHostCache
    /\ hoverCache = [u \in HoverUrls |-> NoHoverEntry]
    /\ nav = IdleNav
    /\ hov = IdleHov
    /\ heur = NoHeur
    /\ StoreDefaults

NextLog ==
    \/ \E url \in LogNavUrls : NavStart(url, 0)
    \/ \E outcome \in ProxyOutcomes : NavProxyReturn(outcome)
    \/ \E outcome \in DirectOutcomes : NavDirectReturn(outcome)
    \/ PostNavLog
    \/ \E body \in OtherLogBodies : PostOtherLog(body)

SpecLog == InitLog /\ [][NextLog]_vars

\* part_004: navigations to a bare IPv4 host that is on no list, under every
\* combination of the lookup settings
IpHost == <<"203", "0", "113", "5">>

IpNavUrls == {Url(IpHost, "/"), Url(IpHost, "/admin")}

InitIpNav ==
    /\ ProxyDefaults
    /\ now = 0
    /\ enabled = TRUE
    /\ allowlist \in SUBSET {Evil}
    /\ blocklist \in SUBSET {Evil}
    /\ useCloudLookup \in BOOLEAN
    /\ useDirectLookup \in BOOLEAN
    /\ directApiKey \in {"", CallKey}
    /\ useSafeBrowsingOnly \in BOOLEAN
    /\ hostCache = [h \in {IpHost} |-> NoHostEntry]
    /\ hoverCache = [u \in HoverUrls |-> NoHoverEntry]
    /\ nav = IdleNav
    /\ hov = IdleHov
    /\ heur = NoHeur
    /\ StoreDefaults

NextIpNav ==
    \/ \E url \in IpNavUrls, frameId \in {0, 1} : NavStart(url, frameId)
    \/ \E outcome \in ProxyOutcomes : NavProxyReturn(outcome)
    \/ \E outcome \in DirectOutcomes : NavDirectReturn(outcome)

SpecIpNav == InitIpNav /\ [][NextIpNav]_vars

----------------------------------------------------------------------------
(* Extension, part_004: the settings in chrome.storage.local *)

MaxChanges == 2     \* chrome.storage.onChanged events waiting at once

\* the keys the popup's controls write (part_001:29-35) and the allowlist
\* (part_001:124, warning.js:50)
SettingKeys == {"enabled", "allowlist", "useCloudLookup"}
SettingValues(key) == IF key = "allowlist" THEN SUBSET {Evil} ELSE BOOLEAN

\* chrome.storage.local.set({key: value}) of a page of the extension; the
\* browser queues an onChanged event when the value differs
StorageSet(key, value) ==
    /\ Len(changes) < MaxChanges
    /\ value # stored[key]
    /\ stored' = [stored EXCEPT ![key] = value]
    /\ changes' = Append(changes, [key |-> key, newValue |-> value])
    /\ UNCHANGED <<loaded, heur, logReq, storeVars, pageVars, toolVars>>
    /\ UNCHANGED <<settingVars, hostCache, hoverCache, nav, hov, proxyVars, now>>

\* the chrome.storage.onChanged listener (lines 488-498) gets the oldest event
onChanged ==
    /\ changes # <<>>
    /\ LET c == Head(changes)
       IN  /\ enabled' = IF c.key = "enabled" THEN c.newValue ELSE enabled
           /\ allowlist' = IF c.key = "allowlist" THEN c.newValue ELSE allowlist
           /\ useCloudLookup' =
                IF c.key = "useCloudLookup" THEN c.newValue ELSE useCloudLookup
           /\ useDirectLookup' =
                IF c.key = "useDirectLookup" THEN c.newValue ELSE useDirectLookup
           /\ directApiKey' = IF c.key = "directApiKey" THEN c.newValue ELSE directApiKey
           /\ useSafeBrowsingOnly' =
                IF c.key = "useSafeBrowsingOnly" THEN c.newValue ELSE useSafeBrowsingOnly
    /\ changes' = Tail(changes)
    /\ UNCHANGED <<blocklist, stored, loaded, heur, logReq, storeVars, pageVars, toolVars>>
    /\ UNCHANGED <<hostCache, hoverCache, nav, hov, proxyVars, now>>

\* the browser stops the idle service worker and an event starts it again:
\* the module-level declarations (lines 14-21, 31-36) run, the listeners are
\* registered and the initialization (line 501) awaits its first
\* chrome.storage.local.get
WorkerStart ==
    /\ nav.pc \in {"idle", "done"}
    /\ loaded
    /\ enabled' = TRUE
    /\ allowlist' = {}
    /\ blocklist' = {}
    /\ useCloudLookup' = FALSE
    /\ useDirectLookup' = FALSE
    /\ directApiKey' = ""
    /\ useSafeBrowsingOnly' = FALSE
    /\ hostCache' = [h \in DOMAIN hostCache |-> NoHostEntry]
    /\ hoverCache' = [k \in DOMAIN hoverCache |-> NoHoverEntry]
    /\ loaded' = FALSE
    /\ UNCHANGED <<stored, changes, heur, logReq, storeVars, pageVars, toolVars>>
    /\ UNCHANGED <<nav, hov, proxyVars, now>>

\* the initialization runs to its end (lines 506-535): the stored settings,
\* the packaged blocklist (empty in these behaviours) and the persisted host
\* cache are loaded
loadStateInitial ==
    /\ ~loaded
    /\ enabled' = stored.enabled
    /\ allowlist' = stored.allowlist
    /\ useCloudLookup' = stored.useCloudLookup
    /\ useDirectLookup' = stored.useDirectLookup
    /\ directApiKey' = stored.directApiKey
    /\ useSafeBrowsingOnly' = stored.useSafeBrowsingOnly
    /\ hostCache' = loadPersistedHostCache(persisted)
    /\ loaded' = TRUE
    /\ UNCHANGED <<blocklist, stored, changes, heur, logReq, storeVars, pageVars, toolVars>>
    /\ UNCHANGED <<hoverCache, nav, hov, proxyVars, now>>

SettingsNavUrls == {Url(Evil, "/login")}

InitSettings ==
    /\ ProxyDefaults
    /\ now = 0
    /\ enabled \in BOOLEAN
    /\ allowlist \in SUBSET {Evil}
    /\ blocklist = {}
    /\ useCloudLookup \in BOOLEAN
    /\ useDirectLookup = FALSE
    /\ directApiKey = ""
    /\ useSafeBrowsingOnly = FALSE
    /\ hostCache = [h \in ExtHosts |-> NoHostEntry]
    /\ hoverCache = [u \in HoverUrls |-> NoHoverEntry]
    /\ nav = IdleNav
    /\ hov = IdleHov
    /\ heur = NoHeur
    /\ StoreDefaults

NextSettings ==
    \/ \E key \in SettingKeys : \E value \in SettingValues(key) : StorageSet(key, value)
    \/ onChanged
    \/ WorkerStart
    \/ loadStateInitial
    \/ \E url \in SettingsNavUrls : NavStart(url, 0)
    \/ \E outcome \in ProxyOutcomes : NavProxyReturn(outcome)
    \/ PersistLands

SpecSettings == InitSettings /\ [][NextSettings]_vars

----------------------------------------------------------------------------
(* The content script and its worker *)

\* the page of the content script with the worker as its environment
InitContent ==
    /\ ProxyDefaults
    /\ now = 0
    /\ ExtDefaults

\* safeSendMessage under a page with one link: the pointer enters and leaves
\* it, its lookups are answered, time out, or sendMessage throws
NextSend ==
    \/ \E to \in {"outside", "linkEvil"} : PointerMoves(to)
    \/ HideTimerFires
    \/ \E k \in 1..MaxSends, throws \in BOOLEAN : HoverTimerFires(k, throws)
    \/ \E i \in 1..MaxSends, answer \in CsAnswers : SendCallback(i, answer)
    \/ \E i \in 1..MaxSends : SendTimeout(i)

\* the timeout timer of safeSendMessage, once set, fires
SpecSend ==
    /\ InitContent
    /\ [][NextSend]_vars
    /\ \A i \in 1..MaxSends : WF_vars(SendTimeout(i))

\* the badge under a page with two links and text between them; the worker
\* answers every lookup with a verdict or not at all
NextBadge ==
    \/ \E to \in {"outside", "text", "linkEvil", "linkLure"} : PointerMoves(to)
    \/ HideTimerFires
    \/ \E k \in 1..MaxSends : HoverTimerFires(k, FALSE)
    \/ \E i \in 1..MaxSends : SendCallback(i, "unsafe")
    \/ \E i \in 1..MaxSends : SendTimeout(i)

SpecBadge == InitContent /\ [][NextBadge]_vars

\* the hover timer under every event that sets or clears it, with the clock
\* of the page's cache
NextDebounce ==
    \/ \E to \in CsElements : PointerMoves(to)
    \/ MouseMove
    \/ PageHidden
    \/ HideTimerFires
    \/ \E k \in 1..MaxSends : HoverTimerFires(k, FALSE)
    \/ \E i \in 1..MaxSends : SendCallback(i, "safe")
    \/ Tick

SpecDebounce == InitContent /\ [][NextDebounce]_vars

----------------------------------------------------------------------------
(* The popup, popup.js:127-340 *)

MaxOps == 2     \* chrome.storage.local calls of the popup in flight at once

KeyValues == {"", CallKey}

\* chrome.storage.local.set(obj): the keys of obj replace the stored ones
storageAfterSet(st, obj) ==
    [k \in DOMAIN st |-> IF k \in DOMAIN obj THEN obj[k] ELSE st[k]]

\* a call in flight: get or set, the object of a set, the place where the
\* handler goes on when the call resolves, and the key the handler holds
GetOp(cont, key) == [kind |-> "get", obj |-> <<>>, cont |-> cont, key |-> key]
SetOp(obj, cont) == [kind |-> "set", obj |-> obj, cont |-> cont, key |-> ""]

Issue(pp, op) == [pp EXCEPT !.ops = Append(@, op)]

\* DOMContentLoaded (lines 127-198): the controls take the stored values and
\* applyInitialState (lines 172-196) unchecks one box when both are checked
PopupLoad ==
    /\ popup.ops = <<>>
    /\ LET hasKey == stored.directApiKey # ""
           both == stored.useCloudLookup /\ stored.useSafeBrowsingOnly
           cloud == stored.useCloudLookup /\ ~(both /\ hasKey)
           safeOnly == stored.useSafeBrowsingOnly /\ ~(both /\ ~hasKey)
           pp == [ClosedPopup EXCEPT !.open = TRUE, !.useCloud = cloud,
                                     !.useSafeOnly = safeOnly,
                                     !.apiKey = stored.directApiKey,
                                     !.apiKeyDisabled = cloud,
                                     !.list = stored.allowlist]
       IN  popup' =
             IF both /\ hasKey
             THEN Issue(pp, SetOp([useCloudLookup |-> FALSE], "end"))
             ELSE IF both
             THEN Issue(pp, SetOp([useSafeBrowsingOnly |-> FALSE], "end"))
             ELSE pp
    /\ UNCHANGED <<stored, changes, loaded, heur, logReq, storeVars, warning, csVars, toolVars>>
    /\ UNCHANGED <<settingVars, hostCache, hoverCache, nav, hov, proxyVars, now>>

\* the user clicks the cloud checkbox: the useCloud change handler
\* (lines 206-243) up to its first await
CloudClick ==
    /\ popup.open
    /\ Len(popup.ops) < MaxOps
    /\ LET pp == [popup EXCEPT !.useCloud = ~@]
       IN  popup' =
             IF pp.useCloud
             THEN Issue(pp, GetOp("cloud_got", ""))
             ELSE Issue(pp, SetOp([useCloudLookup |-> FALSE], "cloud_off"))
    /\ UNCHANGED <<stored, changes, loaded, heur, logReq, storeVars, warning, csVars, toolVars>>
    /\ UNCHANGED <<settingVars, hostCache, hoverCache, nav, hov, proxyVars, now>>

\* the user clicks the Safe-Browsing-only checkbox: the useSafeOnly change
\* handler (lines 246-263) up to its first await
SafeOnlyClick ==
    /\ popup.open
    /\ Len(popup.ops) < MaxOps
    /\ LET pp == [popup EXCEPT !.useSafeOnly = ~@]
       IN  popup' =
             IF pp.useSafeOnly /\ pp.useCloud
             THEN Issue([pp EXCEPT !.useCloud = FALSE],
                        SetOp([useCloudLookup |-> FALSE], "safe_cloudoff"))
             ELSE Issue(pp, SetOp([useSafeBrowsingOnly |-> pp.useSafeOnly], "end"))
    /\ UNCHANGED <<stored, changes, loaded, heur, logReq, storeVars, warning, csVars, toolVars>>
    /\ UNCHANGED <<settingVars, hostCache, hoverCache, nav, hov, proxyVars, now>>

\* the user types, pastes or clears the API key: the apiKeyInput input
\* handler (lines 266-290) up to its first await
KeyInput(value) ==
    /\ popup.open
    /\ ~popup.apiKeyDisabled
    /\ Len(popup.ops) < MaxOps
    /\ LET pp == [popup EXCEPT !.apiKey = value]
       IN  popup' =
             IF value # ""
             THEN Issue(pp, GetOp("input_got", value))
             ELSE Issue(pp, SetOp([directApiKey |-> "", useDirectLookup |-> FALSE], "end"))
    /\ UNCHANGED <<stored, changes, loaded, heur, logReq, storeVars, warning, csVars, toolVars>>
    /\ UNCHANGED <<settingVars, hostCache, hoverCache, nav, hov, proxyVars, now>>

\* the oldest call resolves and its handler runs to its next await;
\* ok is the answer to confirm() where the handler asks
OpResolves(ok) ==
    /\ popup.ops # <<>>
    /\ LET op == Head(popup.ops)
           st == IF op.kind = "set" THEN storageAfterSet(stored, op.obj) ELSE stored
           pp == [popup EXCEPT !.ops = Tail(@)]
       IN  /\ stored' = st
           /\ popup' =
                CASE op.cont = "cloud_got" ->
                        IF st.directApiKey # ""
                        THEN IF ok
                             THEN Issue(pp, SetOp([useCloudLookup |-> TRUE,
                                                   directApiKey |-> "",
                                                   useDirectLookup |-> FALSE,
                                                   useSafeBrowsingOnly |-> FALSE],
                                                  "cloud_cleared"))
                             ELSE [pp EXCEPT !.useCloud = FALSE]
                        ELSE Issue(pp, SetOp([useCloudLookup |-> TRUE], "cloud_on"))
                  [] op.cont = "cloud_cleared" ->
                        [pp EXCEPT !.apiKey = "", !.apiKeyDisabled = TRUE,
                                   !.useSafeOnly = FALSE]
                  [] op.cont = "cloud_on" ->
                        IF pp.useSafeOnly
                        THEN Issue([pp EXCEPT !.apiKeyDisabled = TRUE, !.useSafeOnly = FALSE],
                                   SetOp([useSafeBrowsingOnly |-> FALSE], "end"))
                        ELSE [pp EXCEPT !.apiKeyDisabled = TRUE]
                  [] op.cont = "cloud_off" -> [pp EXCEPT !.apiKeyDisabled = FALSE]
                  [] op.cont = "safe_cloudoff" ->
                        Issue([pp EXCEPT !.apiKeyDisabled = FALSE],
                              SetOp([useSafeBrowsingOnly |-> TRUE], "end"))
                  [] op.cont = "input_got" ->
                        IF st.useCloudLookup /\ ~ok
                        THEN [pp EXCEPT !.apiKey = ""]
                        ELSE Issue(pp, SetOp([directApiKey |-> op.key,
                                              useDirectLookup |-> TRUE,
                                              useCloudLookup |-> FALSE], "input_saved"))
                  [] op.cont = "input_saved" ->
                        [pp EXCEPT !.useCloud = FALSE, !.apiKeyDisabled = FALSE]
                  [] OTHER -> pp
    /\ UNCHANGED <<changes, loaded, heur, logReq, storeVars, warning, csVars, toolVars>>
    /\ UNCHANGED <<settingVars, hostCache, hoverCache, nav, hov, proxyVars, now>>

\* the hosts of the tabs the popup is opened over
AllowHosts == {Evil, Lure}

\* the user clicks "Allow current site" (popup.js:66-80) with the active tab
\* on a page of `host`: the host is pushed on the popup's own allowlist
\* variable, read when the popup was opened (lines 22, 148), and the whole
\* list is written.  chrome.tabs.query touches nothing of the model.
AllowCurrentClick(host) ==
    /\ popup.open
    /\ Len(popup.ops) < MaxOps
    /\ host \notin popup.list
    /\ LET list == popup.list \cup {host}
       IN  popup' = Issue([popup EXCEPT !.list = list],
                          [SetOp([allowlist |-> list], "allow_added") EXCEPT !.key = host])
    /\ UNCHANGED <<stored, changes, loaded, heur, logReq, storeVars, warning, csVars, toolVars>>
    /\ UNCHANGED <<settingVars, hostCache, hoverCache, nav, hov, proxyVars, now>>

\* the user clicks Remove on the row of `host` (popup.js:96-100): the host
\* is filtered out of the popup's list and the whole list is written
RemoveClick(host) ==
    /\ popup.open
    /\ Len(popup.ops) < MaxOps
    /\ host \in popup.list
    /\ LET list == popup.list \ {host}
       IN  popup' = Issue([popup EXCEPT !.list = list],
                          [SetOp([allowlist |-> list], "allow_removed") EXCEPT !.key = host])
    /\ UNCHANGED <<stored, changes, loaded, heur, logReq, storeVars, warning, csVars, toolVars>>
    /\ UNCHANGED <<settingVars, hostCache, hoverCache, nav, hov, proxyVars, now>>

\* a fresh installation: nothing stored, the popup not yet opened
InitPopup ==
    /\ ProxyDefaults
    /\ now = 0
    /\ ExtDefaults

NextPopup ==
    \/ PopupLoad
    \/ CloudClick
    \/ SafeOnlyClick
    \/ \E value \in KeyValues : KeyInput(value)
    \/ \E ok \in BOOLEAN : OpResolves(ok)

SpecPopup == InitPopup /\ [][NextPopup]_vars

----------------------------------------------------------------------------
(* The warning page, warning.js *)

\* the user clicks "Allow this host and proceed" on the warning page the
\* tab was sent to (lines 43-46): the handler awaits the stored allowlist
AllowClick ==
    /\ warning.pc = "idle"
    /\ nav.pc = "done" /\ nav.redirected
    /\ warning' = [IdleWarning EXCEPT !.pc = "get", !.url = nav.url,
                                      !.host = hostnameFromUrl(nav.url)]
    /\ UNCHANGED <<popup, csVars, cfgVars, heur, logReq, storeVars, toolVars>>
    /\ UNCHANGED <<settingVars, hostCache, hoverCache, nav, hov, proxyVars, now>>

\* the get resolves (lines 46-50): the host is pushed unless it is listed
AllowGot ==
    /\ warning.pc = "get"
    /\ warning' =
         IF warning.host \in stored.allowlist
         THEN [warning EXCEPT !.pc = "go"]
         ELSE [warning EXCEPT !.pc = "set", !.list = stored.allowlist \cup {warning.host}]
    /\ UNCHANGED <<popup, csVars, cfgVars, heur, logReq, storeVars, toolVars>>
    /\ UNCHANGED <<settingVars, hostCache, hoverCache, nav, hov, proxyVars, now>>

\* chrome.storage.local.set({ allowlist }) resolves (line 50)
AllowSet ==
    /\ warning.pc = "set"
    /\ stored' = [stored EXCEPT !.allowlist = warning.list]
    /\ changes' = Append(changes, [key |-> "allowlist", newValue |-> warning.list])
    /\ warning' = [warning EXCEPT !.pc = "go"]
    /\ UNCHANGED <<popup, csVars, loaded, heur, logReq, storeVars, toolVars>>
    /\ UNCHANGED <<settingVars, hostCache, hoverCache, nav, hov, proxyVars, now>>

\* chrome.tabs.update(tabs[0].id, { url: targetUrl }) (lines 52-65): the tab
\* navigates to the original URL and the service worker's handler gets it
AllowNavigates ==
    /\ warning.pc = "go"
    /\ nav.pc \in {"idle", "done"}
    /\ onBeforeNavigate(warning.url, 0)
    /\ warning' = [warning EXCEPT !.pc = "went"]
    /\ UNCHANGED <<popup, csVars, cfgVars, heur, logReq, storeVars, toolVars>>
    /\ UNCHANGED <<settingVars, hostCache, hoverCache, hov, proxyVars, now>>

InitWarning ==
    /\ ProxyDefaults
    /\ now = 0
    /\ enabled = TRUE
    /\ allowlist = {}
    /\ blocklist \in SUBSET {Evil}
    /\ useCloudLookup \in BOOLEAN
    /\ useDirectLookup \in BOOLEAN
    /\ directApiKey \in {"", CallKey}
    /\ useSafeBrowsingOnly \in BOOLEAN
    /\ hostCache = [h \in ExtHosts |-> NoHostEntry]
    /\ hoverCache = [u \in HoverUrls |-> NoHoverEntry]
    /\ nav = IdleNav
    /\ hov = IdleHov
    /\ heur = NoHeur
    /\ StoreDefaults

\* the navigation that the check sends to the warning page
FirstNavigation(url) ==
    /\ warning.pc = "idle"
    /\ NavStart(url, 0)

NextWarning ==
    \/ \E url \in NavUrls : FirstNavigation(url)
    \/ \E outcome \in ProxyOutcomes : NavProxyReturn(outcome)
    \/ \E outcome \in DirectOutcomes : NavDirectReturn(outcome)
    \/ AllowClick
    \/ AllowGot
    \/ AllowSet
    \/ onChanged
    \/ AllowNavigates

SpecWarning == InitWarning /\ [][NextWarning]_vars

\* a warning page and an open popup, both writing the stored allowlist
NextAllowlist ==
    \/ \E url \in NavUrls : FirstNavigation(url)
    \/ AllowClick
    \/ AllowGot
    \/ AllowSet
    \/ PopupLoad
    \/ \E host \in AllowHosts : AllowCurrentClick(host)
    \/ \E host \in AllowHosts : RemoveClick(host)
    \/ OpResolves(TRUE)

SpecAllowlist == InitWarning /\ [][NextAllowlist]_vars

\* the user clicks "Proceed" on the warning page the tab was sent to
\* (content_script.js:437-448): chrome.tabs.update(tab.id, { url: originalUrl })
\* navigates the tab to the original URL and the service worker's handler
\* gets that navigation like any other
ProceedClick ==
    /\ warning.pc = "idle"
    /\ nav.pc = "done" /\ nav.redirected
    /\ onBeforeNavigate(nav.url, 0)
    /\ warning' = [IdleWarning EXCEPT !.pc = "proceeded", !.url = nav.url,
                                      !.host = hostnameFromUrl(nav.url)]
    /\ UNCHANGED <<popup, csVars, cfgVars, heur, logReq, storeVars, toolVars>>
    /\ UNCHANGED <<settingVars, hostCache, hoverCache, hov, proxyVars, now>>

NextProceed ==
    \/ \E url \in NavUrls : FirstNavigation(url)
    \/ \E outcome \in ProxyOutcomes : NavProxyReturn(outcome)
    \/ \E outcome \in DirectOutcomes : NavDirectReturn(outcome)
    \/ ProceedClick

SpecProceed == InitWarning /\ [][NextProceed]_vars

----------------------------------------------------------------------------
(* server/update_urlhaus.js *)

\* a CSV text is the sequence of the URLs written in it
CsvTexts ==
    {<<>>, <<Url(Evil, "/a.exe")>>,
     <<Url(<<"EVIL", "com">>, "/b"), Url(Evil, "/c"), Url(<<"shop", "tk">>, "/")>>,
     <<Url(Lure, "/")>>}

\* extractHostsFromText(txt): the lower-cased host of every URL found, once
\* each (the array is sorted, so the set determines the file)
extractHostsFromText(txt) == {toLowerCase(txt[i].host) : i \in 1..Len(txt)}

FetchOutcomes == {"ok", "nonok", "throw"}

\* one run of the script (lines 81-121); shouldDownload is line 37, outcome
\* and txt are what fetch(CSV_URL) would bring
main(shouldDownload, outcome, txt) ==
    /\ LET csvExists == upd.csv.exists
           hostsExists == upd.hostsFile.exists
           run == [upd EXCEPT !.ran = TRUE, !.shouldDownload = shouldDownload,
                              !.fetched = FALSE, !.served = txt, !.fetchOk = (outcome = "ok"),
                              !.exitCode = 0]
       IN  upd' =
             IF ~csvExists /\ ~hostsExists /\ ~shouldDownload
             THEN [run EXCEPT !.exitCode = 2]
             ELSE IF csvExists
             THEN [run EXCEPT !.hostsFile = [exists |-> TRUE,
                                             hosts |-> extractHostsFromText(upd.csv.text)]]
             ELSE IF shouldDownload
             THEN IF outcome = "ok"
                  THEN [run EXCEPT !.fetched = TRUE,
                                   !.csv = [exists |-> TRUE, text |-> txt],
                                   !.hostsFile = [exists |-> TRUE,
                                                  hosts |-> extractHostsFromText(txt)]]
                  ELSE [run EXCEPT !.fetched = TRUE, !.exitCode = 1]
             ELSE run
    /\ UNCHANGED <<heur, logReq, storeVars, cfgVars, pageVars>>
    /\ UNCHANGED <<settingVars, hostCache, hoverCache, nav, hov, proxyVars, now>>

\* between two runs someone saves a CSV as server/data/urlhaus.csv, or
\* removes the file
PlaceCsv(txt) ==
    /\ upd' = [upd EXCEPT !.csv = [exists |-> TRUE, text |-> txt], !.ran = FALSE]
    /\ UNCHANGED <<heur, logReq, storeVars, cfgVars, pageVars>>
    /\ UNCHANGED <<settingVars, hostCache, hoverCache, nav, hov, proxyVars, now>>

RemoveCsv ==
    /\ upd.csv.exists
    /\ upd' = [upd EXCEPT !.csv = NoCsv, !.ran = FALSE]
    /\ UNCHANGED <<heur, logReq, storeVars, cfgVars, pageVars>>
    /\ UNCHANGED <<settingVars, hostCache, hoverCache, nav, hov, proxyVars, now>>

\* nothing in server/data yet
InitUpdate ==
    /\ ProxyDefaults
    /\ now = 0
    /\ ExtDefaults

NextUpdate ==
    \/ \E shouldDownload \in BOOLEAN, outcome \in FetchOutcomes, txt \in CsvTexts :
          main(shouldDownload, outcome, txt)
    \/ \E txt \in CsvTexts : PlaceCsv(txt)
    \/ RemoveCsv

SpecUpdate == InitUpdate /\ [][NextUpdate]_vars

----------------------------------------------------------------------------
(* A URL that cannot be parsed *)

\* a string for which new URL() throws
BadUrl == Url(Null, "not a url")

BadCheckUrls == {BadUrl, Url(<<"shop", "com">>, "/")}
BadHeurUrls == {BadUrl, Url(PaypalTk, "/")}
BadNavUrls == {BadUrl, Url(Lure, "/"), Url(Evil, "/login")}

\* runHeuristics of part_004, GET /check of part_000 with a feed entry and a
\* PhishTank key, and the onBeforeNavigate of background.js:542 with a
\* blocklist and an API key
InitBadUrl ==
    /\ srv = "part_000"
    /\ phishtankKey = TRUE
    /\ feedHostSet = {<<"shop", "com">>}
    /\ cache = [u \in BadCheckUrls |-> NoEntry]
    /\ chk = IdleChk
    /\ okResp = NoResp
    /\ hostResp = NoHostResp
    /\ FeedDefaults
    /\ now = 0
    /\ enabled = TRUE
    /\ allowlist = {}
    /\ blocklist = {Lure}
    /\ useCloudLookup = FALSE
    /\ useDirectLookup = FALSE
    /\ directApiKey = CallKey
    /\ useSafeBrowsingOnly = FALSE
    /\ hostCache = EmptyHostCache
    /\ hoverCache = [h \in ExtHosts |-> NoHoverEntry]
    /\ nav = IdleNav
    /\ hov = IdleHov
    /\ heur = NoHeur
    /\ StoreDefaults

NextBadUrl ==
    \/ \E u \in BadHeurUrls, skipLocalDb \in BOOLEAN : Heuristics(u, skipLocalDb)
    \/ \E url \in BadCheckUrls : CheckRequest(url)
    \/ \E outcome \in SbOutcomes : CheckSafeBrowsing(outcome)
    \/ \E outcome \in PtOutcomes : CheckPhishTank(outcome)
    \/ \E url \in BadNavUrls : DirectNavStart(url, 0)
    \/ \E outcome \in DirectOutcomes : DirectNavReturn(outcome)

SpecBadUrl == InitBadUrl /\ [][NextBadUrl]_vars

----------------------------------------------------------------------------
(* GET /check and its cache, in part_000 and in server.js *)

InitCache ==
    /\ srv \in {"part_000", "server_js"}
    /\ phishtankKey \in BOOLEAN
    /\ feedHostSet \in {{}, {Evil}}
    /\ cache = [u \in CheckUrls |-> NoEntry]
    /\ now = 0
    /\ chk = IdleChk
    /\ okResp = NoResp
    /\ hostResp = NoHostResp
    /\ FeedDefaults
    /\ ExtDefaults

NextCache ==
    \/ \E url \in CheckUrls : CheckRequest(url)
    \/ \E outcome \in SbOutcomes : CheckSafeBrowsing(outcome)
    \/ \E outcome \in PtOutcomes : CheckPhishTank(outcome)
    \/ Tick

SpecCache == InitCache /\ [][NextCache]_vars

\* background.js:1-350: hover checks
InitHover ==
    /\ ProxyDefaults
    /\ now = 0
    /\ LoadedSettings
    /\ useSafeBrowsingOnly = FALSE
    /\ hostCache = [h \in ExtHosts |-> NoHostEntry]
    /\ hoverCache = [u \in HoverUrls |-> NoHoverEntry]
    /\ nav = IdleNav
    /\ hov = IdleHov
    /\ heur = NoHeur
    /\ StoreDefaults

NextHover ==
    \/ \E url \in HoverUrls : HoverUrlStart(url)
    \/ \E outcome \in ProxyOutcomes : HoverProxyReturn(outcome)
    \/ \E outcome \in DirectOutcomes : HoverDirectReturn(outcome)
    \/ StorageChangedHover
    \/ Tick

SpecHover == InitHover /\ [][NextHover]_vars

\* runHeuristics under every allowlist and blocklist over three of its hosts
InitHeuristics ==
    /\ ProxyDefaults
    /\ now = 0
    /\ enabled = TRUE
    /\ allowlist \in SUBSET {Evil, PaypalTk}
    /\ blocklist \in SUBSET {Evil, PaypalTk, <<"203", "0", "113", "5">>}
    /\ useCloudLookup = FALSE
    /\ useDirectLookup = FALSE
    /\ directApiKey = ""
    /\ useSafeBrowsingOnly = FALSE
    /\ hostCache = [h \in ExtHosts |-> NoHostEntry]
    /\ hoverCache = [u \in HoverUrls |-> NoHoverEntry]
    /\ nav = IdleNav
    /\ hov = IdleHov
    /\ heur = NoHeur
    /\ StoreDefaults

NextHeuristics == \E u \in HeurUrls, skipLocalDb \in BOOLEAN : Heuristics(u, skipLocalDb)

SpecHeuristics == InitHeuristics /\ [][NextHeuristics]_vars

\* part_004 with its host cache empty and nothing persisted; hover checks,
\* storage writes, worker restarts and the clock
InitHostCache ==
    /\ ProxyDefaults
    /\ now = 0
    /\ enabled = TRUE
    /\ allowlist = {}
    /\ blocklist = {}
    /\ useCloudLookup \in BOOLEAN
    /\ useDirectLookup = FALSE
    /\ directApiKey = ""
    /\ useSafeBrowsingOnly = FALSE
    /\ hostCache = EmptyHostCache
    /\ hoverCache = [h \in ExtHosts |-> NoHoverEntry]
    /\ nav = IdleNav
    /\ hov = IdleHov
    /\ heur = NoHeur
    /\ StoreDefaults

NextHostCache ==
    \/ \E msgHost \in HoverHosts : HostHoverStart(msgHost)
    \/ \E outcome \in HostProxyOutcomes : HostHoverProxyReturn(outcome)
    \/ PersistLands
    \/ WorkerRestart
    \/ TickTtl

SpecHostCache == InitHostCache /\ [][NextHostCache]_vars

\* background.js:351-650 with its host cache empty and nothing persisted; one
\* of the two hosts is on the packaged blocklist
InitHostCacheDirect ==
    /\ ProxyDefaults
    /\ now = 0
    /\ enabled = TRUE
    /\ allowlist = {}
    /\ blocklist = {Lure}
    /\ useCloudLookup = FALSE
    /\ useDirectLookup = FALSE
    /\ directApiKey \in {"", CallKey}
    /\ useSafeBrowsingOnly = FALSE
    /\ hostCache = EmptyHostCache
    /\ hoverCache = [h \in ExtHosts |-> NoHoverEntry]
    /\ nav = IdleNav
    /\ hov = IdleHov
    /\ heur = NoHeur
    /\ StoreDefaults

NextHostCacheDirect ==
    \/ \E url \in DirectNavUrls, frameId \in {0, 1} : DirectNavStart(url, frameId)
    \/ \E outcome \in DirectOutcomes : DirectNavReturn(outcome)
    \/ persistTimerFired
    \/ PersistLands
    \/ WorkerRestartDirect
    \/ TickTtl

SpecHostCacheDirect == InitHostCacheDirect /\ [][NextHostCacheDirect]_vars

\* background.js:351-650 from the start of the worker: let blocklist = []
\* (line 361) until init has read blocklist.json, so that a host of the
\* packaged list can be given a safe entry before the list is in memory
InitBlocklist ==
    /\ ProxyDefaults
    /\ now = 0
    /\ enabled = TRUE
    /\ allowlist \in {{}, {Lure}}
    /\ blocklist = {}
    /\ useCloudLookup = FALSE
    /\ useDirectLookup = FALSE
    /\ directApiKey \in {"", CallKey}
    /\ useSafeBrowsingOnly = FALSE
    /\ hostCache = EmptyHostCache
    /\ hoverCache = [h \in ExtHosts |-> NoHoverEntry]
    /\ nav = IdleNav
    /\ hov = IdleHov
    /\ heur = NoHeur
    /\ StoreDefaults

NextBlocklist ==
    \/ \E url \in DirectNavUrls, frameId \in {0, 1} : DirectNavStart(url, frameId)
    \/ \E outcome \in DirectOutcomes : DirectNavReturn(outcome)
    \/ loadPackagedBlocklist
    \/ persistTimerFired
    \/ PersistLands
    \/ TickTtl

SpecBlocklist == InitBlocklist /\ [][NextBlocklist]_vars

\* background.js:351-650 while the worker stays alive: navigations, the clock,
\* the debounce timer and storage writes that are applied or rejected.  The
\* timer runs once set and a storage call settles one way or the other.
\* the browser stops the idle service worker and a later event starts it
\* again: the module is evaluated anew (background.js:364-368: an empty Map,
\* an empty blocklist) and init() (lines 644-651) is at its first await
WorkerStartDirect ==
    /\ loaded
    /\ dnav.pc \in {"idle", "done"}
    /\ ~persistTimer /\ ~pendingPersist.due
    /\ hostCache' = EmptyHostCache
    /\ hoverCache' = [k \in DOMAIN hoverCache |-> NoHoverEntry]
    /\ blocklist' = {}
    /\ loaded' = FALSE
    /\ UNCHANGED <<enabled, allowlist, useCloudLookup, useDirectLookup, directApiKey,
                   useSafeBrowsingOnly, stored, changes>>
    /\ UNCHANGED <<heur, logReq, storeVars, pageVars, toolVars, nav, hov, proxyVars, now>>

\* the get of loadPersistedHostCache resolves, after init's await of
\* loadPackagedBlocklist, and the loop of lines 430-432 runs: every
\* persisted entry younger than the TTL is set into the Map, as it is
loadPersistedHostCacheLands ==
    /\ ~loaded
    /\ blocklist = PackagedBlocklist
    /\ LET raw == loadPersistedHostCacheDirect(persisted)
       IN  hostCache' = [k \in DOMAIN hostCache |->
                            IF raw[k] # NoHostEntry THEN raw[k] ELSE hostCache[k]]
    /\ loaded' = TRUE
    /\ UNCHANGED <<settingVars, stored, changes>>
    /\ UNCHANGED <<heur, logReq, storeVars, pageVars, toolVars, hoverCache, nav, hov,
                   proxyVars, now>>

NextStartup ==
    \/ \E url \in DirectNavUrls : DirectNavStart(url, 0)
    \/ \E outcome \in DirectOutcomes : DirectNavReturn(outcome)
    \/ persistTimerFired
    \/ PersistLands
    \/ WorkerStartDirect
    \/ loadPackagedBlocklist
    \/ loadPersistedHostCacheLands
    \/ Tick

SpecStartup == InitHostCacheDirect /\ [][NextStartup]_vars

\* safeUpdateTab has sent the tab to warning.html (background.js:566-569,
\* 604-607): the tab navigates there, a top-frame navigation, and the
\* listener of line 542, registered without a URL filter, is called with it
WarningPageOpens ==
    /\ dnav.pc = "done" /\ dnav.redirected
    /\ DirectNavStart(Url(ExtensionId, "/warning.html"), 0)

\* the direct variant with the Map able to hold an entry for any host the
\* handler may be called with
InitRedirect ==
    /\ ProxyDefaults
    /\ now = 0
    /\ enabled \in BOOLEAN
    /\ allowlist = {}
    /\ blocklist = {Lure}
    /\ useCloudLookup = FALSE
    /\ useDirectLookup = FALSE
    /\ directApiKey \in {"", CallKey}
    /\ useSafeBrowsingOnly = FALSE
    /\ hostCache = [h \in ExtHosts \cup {ExtensionId} |-> NoHostEntry]
    /\ hoverCache = [h \in ExtHosts |-> NoHoverEntry]
    /\ nav = IdleNav
    /\ hov = IdleHov
    /\ heur = NoHeur
    /\ StoreDefaults

NextRedirect ==
    \/ \E url \in DirectNavUrls, frameId \in {0, 1} : DirectNavStart(url, frameId)
    \/ \E outcome \in DirectOutcomes : DirectNavReturn(outcome)
    \/ WarningPageOpens
    \/ persistTimerFired
    \/ PersistLands

SpecRedirect == InitRedirect /\ [][NextRedirect]_vars

\* URLs whose host names carry no, one and two leading www labels
WwwNavUrls == DirectNavUrls \cup {Url(<<"www", "www", "evil", "com">>, "/login"),
                                  Url(Evil, "/login")}

\* the direct variant called with them
NextNormalize ==
    \/ \E url \in WwwNavUrls : DirectNavStart(url, 0)
    \/ \E outcome \in DirectOutcomes : DirectNavReturn(outcome)
    \/ persistTimerFired
    \/ PersistLands

SpecNormalize == InitHostCacheDirect /\ [][NextNormalize]_vars

NextPersist ==
    \/ \E url \in DirectNavUrls, frameId \in {0, 1} : DirectNavStart(url, frameId)
    \/ \E outcome \in DirectOutcomes : DirectNavReturn(outcome)
    \/ persistTimerFired
    \/ PersistLands
    \/ PersistFails
    \/ TickTtl

SpecPersist ==
    /\ InitHostCacheDirect
    /\ [][NextPersist]_vars
    /\ WF_vars(persistTimerFired)
    /\ WF_vars(PersistLands \/ PersistFails)

\* check.  What the worker does by itself is fair: the 300 ms timer runs and
\* the storage applies a write.  callSafeBrowsingDirect settles only when
\* Safe Browsing answers or the transport fails, which nothing guarantees:
\* the fetch (lines 499-503) is given no signal and no timer is set beside it.
NextDirectNav ==
    \/ \E url \in DirectNavUrls, frameId \in {0, 1} : DirectNavStart(url, frameId)
    \/ \E outcome \in DirectOutcomes : DirectNavReturn(outcome)
    \/ persistTimerFired
    \/ PersistLands

SpecDirectNavLive ==
    /\ InitHostCacheDirect
    /\ [][NextDirectNav]_vars
    /\ WF_vars(persistTimerFired)
    /\ WF_vars(PersistLands)

----------------------------------------------------------------------------
(* Properties *)

\* C1 as stated: a navigation of a URL whose host was on the allowlist when
\* the check started is never redirected to the warning page, whatever the
\* blocklist, the heuristics and the remote lookups report.
C1_AllowlistedNeverRedirected ==
    (nav.pc = "done" /\ nav.allowlisted) => ~nav.redirected

\* C5 as stated: a hover check one of whose remote lookups came back non-OK
\* or failed in transport is not answered with status safe.
C5_RemoteErrorNeverSafe ==
    (hov.pc = "done" /\ hov.remoteFailed) => hov.status # "safe"

\* C9 as stated: a hover check issues no request that reaches Google Safe
\* Browsing, neither directly nor through GET /check of the proxy, under any
\* setting of useCloudLookup, useDirectLookup and directApiKey.
C9_HoverNeverCallsRemote ==
    hov.calls \cap {"safebrowsing-direct", "safebrowsing-via-proxy"} = {}

\* C10 as stated: when a navigation in useSafeBrowsingOnly mode asked Safe
\* Browsing first and the lookup found nothing, the local blocklist is still
\* evaluated afterwards.
C10_LocalEvaluatedAfterRemoteMiss ==
    (/\ nav.pc = "done" /\ nav.safeOnly
     /\ nav.trace # <<>> /\ nav.trace[1] = "safebrowsing"
     /\ nav.reason = NoReason)
        => \E i \in 2..Len(nav.trace) : nav.trace[i] = "blocklist"

\* h is host itself or a right-aligned dot-separated suffix of it
IsTail(h, host) == \E i \in 1..Len(host) : SubSeq(host, i, Len(host)) = h

\* C2 as stated: whenever the published feed set holds h, GET /check of a URL
\* whose host is h or a subdomain of h answers safe:false with the feed match
\* as its source, after any earlier checks and refreshes.
C2_FeedHitAlways ==
    [][\A u \in CheckUrls :
         (CheckRequest(u) /\ \E h \in feedHostSet : IsTail(h, hostnameFromUrl(u)))
            => (chk'.pc = "done" /\ chk'.safe = FALSE /\ chk'.matches.feeds # Null)]_vars

\* C2 amended: the same, for an entry h that is the host itself or has at least
\* two labels, when the URL cache holds no unexpired entry for the URL string;
\* the answer is given before any remote lookup and is not marked cached.
C2_FeedHitOnCacheMiss ==
    [][\A u \in CheckUrls :
         (/\ CheckRequest(u)
          /\ cache[u] = NoEntry \/ now - cache[u].ts >= CACHE_TTL_MS
          /\ \E h \in feedHostSet :
                /\ IsTail(h, hostnameFromUrl(u))
                /\ h = hostnameFromUrl(u) \/ Len(h) >= 2)
            => (/\ chk'.pc = "done" /\ chk'.status = 200
                /\ chk'.safe = FALSE /\ chk'.cached = FALSE
                /\ chk'.matches.feeds \in feedHostSet
                /\ IsTail(chk'.matches.feeds, hostnameFromUrl(u))
                /\ chk'.sbOutcome = "none")]_vars

\* C2 witness: feed entry evil.com answered a check of http://sub.evil.com/path?x=1
C2_Witness ==
    /\ chk.pc = "done" /\ chk.cached = FALSE /\ chk.safe = FALSE
    /\ chk.url = Url(<<"sub", "evil", "com">>, "/path?x=1")
    /\ chk.matches.feeds = <<"evil", "com">>

\* C3 as stated: for every entry h and every host that is h or a subdomain of
\* h the match is h, and a host no entry is a tail of gets null.
C3_MatchReturnsEntry ==
    hostResp.status = 200 =>
        LET host == toLowerCase(hostResp.host)
        IN  /\ \A h \in hostResp.set : IsTail(h, host) => hostResp.matchedHost = h
            /\ (~\E h \in hostResp.set : IsTail(h, host)) => hostResp.matchedHost = Null

\* C3 amended: a host that is an entry matches itself; a subdomain of an entry
\* h of at least two labels matches h unless a longer tail of the host is an
\* entry too; a host no entry is a tail of gets null.
C3_MatchReturnsLongestEntry ==
    hostResp.status = 200 =>
        LET host == toLowerCase(hostResp.host)
            set == hostResp.set
        IN  /\ host \in set => hostResp.matchedHost = host
            /\ \A h \in set :
                 (/\ IsTail(h, host) /\ Len(h) >= 2
                  /\ ~\E g \in set : IsTail(g, host) /\ Len(g) > Len(h))
                    => hostResp.matchedHost = h
            /\ (~\E h \in set : IsTail(h, host)) => hostResp.matchedHost = Null

\* C3 witness: a proper subdomain was matched by its two-label entry
C3_Witness ==
    /\ hostResp.status = 200
    /\ hostResp.matchedHost = <<"evil", "com">>
    /\ Len(hostResp.host) = 3
    /\ hostResp.host # hostResp.matchedHost

\* C4: the result is the longest entry among the host itself and its tails of
\* at least two labels, and null when there is none: the bare last label of a
\* host of several labels never matches.
C4_LongestSuffixNoTld ==
    hostResp.status = 200 =>
        LET host == toLowerCase(hostResp.host)
            tested == {h \in hostResp.set : IsTail(h, host) /\ (h = host \/ Len(h) >= 2)}
        IN  IF tested = {} THEN hostResp.matchedHost = Null
            ELSE /\ hostResp.matchedHost \in tested
                 /\ \A g \in tested : Len(g) <= Len(hostResp.matchedHost)

\* C4 witness: of two entries that are proper tails of the host the longer one
\* was returned, with the entry com in the set as well
C4_Witness ==
    /\ hostResp.status = 200
    /\ Len(hostResp.host) = 4
    /\ {<<"com">>, <<"evil", "com">>, <<"sub", "evil", "com">>} \subseteq hostResp.set
    /\ hostResp.matchedHost = <<"sub", "evil", "com">>

\* C4 witness, second half: com is an entry and sub.com got no match
C4_WitnessTld ==
    /\ hostResp.status = 200
    /\ hostResp.host = <<"sub", "com">>
    /\ <<"com">> \in hostResp.set
    /\ hostResp.matchedHost = Null

\* C6 as stated: a Safe Browsing error does not fail the request and does not
\* end it: PhishTank, when configured, is asked before the verdict.
C6_SbErrorGoesOnToPhishTank ==
    (chk.pc = "done" /\ chk.sbOutcome \in {"nonok", "throw"})
        => (chk.status = 200 /\ (phishtankKey => chk.ptAsked))

\* C7 as stated: the step that answers a request whose Safe Browsing lookup
\* was inconclusive writes no cache entry for its key.
C7_NoCacheWriteOnInconclusive ==
    [][(chk.pc = "sb" /\ chk'.pc = "done" /\ chk'.sbOutcome \in {"nonok", "throw"})
          => cache'[chk.url] = cache[chk.url]]_vars

\* C8 as stated: with the feed clear and the Safe Browsing call failed the
\* answer is safe:true and differs, in some field a client sees, from the
\* answer given after a lookup that succeeded and matched nothing.
C8_FailedRemoteIsVisible ==
    (chk.pc = "done" /\ chk.sbOutcome \in {"nonok", "throw"})
        => (chk.status = 200 /\ chk.safe = TRUE /\ Visible(chk) # okResp)

\* the hosts a source hands to a refresh: none when it failed
Delivered(outcome) ==
    IF ~outcome.ok THEN {} ELSE {toLowerCase(l.host) : l \in {x \in outcome.lines : x.host # Null}}
DeliveredLocal(outcome) ==
    IF ~outcome.ok THEN {} ELSE {toLowerCase(l) : l \in outcome.lines}

\* C11 as stated: a refresh in which the OpenPhish fetch fails and the local
\* hosts file is missing or unreadable leaves the published host set as it was.
C11_FailedRefreshKeepsSnapshot ==
    [][\A t \in Triggers, open \in OpenPhishOutcomes, local \in LocalFileOutcomes :
         (updateFeedsSettled(t, open, local) /\ ~open.ok /\ ~local.ok)
            => feedHostSet' = feedHostSet]_vars

\* C12: when a source fails during a refresh, updateFeeds still returns
\* ok:true, the published set holds every host the other source delivered,
\* and the failing source adds nothing to it.
C12_FailingSourceAddsNothing ==
    [][\A t \in Triggers, open \in OpenPhishOutcomes, local \in LocalFileOutcomes :
         (updateFeedsSettled(t, open, local) /\ (~open.ok \/ ~local.ok))
            => (/\ feedRet'.ok
                /\ Delivered(open) \cup DeliveredLocal(local) \subseteq feedHostSet'
                /\ ~open.ok => feedHostSet' = DeliveredLocal(local) /\ feedRet'.openphish = 0
                /\ ~local.ok => feedHostSet' = Delivered(open) /\ feedRet'.localUrlhaus = 0)]_vars

\* C12 witness: a manual refresh whose OpenPhish fetch failed was answered ok
\* and published the hosts of the local file
C12_Witness ==
    /\ refresh.answer = "ok" /\ refresh.failed = {"openphish"}
    /\ feedRet.ok /\ feedRet.openphish = 0 /\ feedRet.localUrlhaus > 0
    /\ feedHostSet = feedRet.published /\ <<"sub", "evil", "com">> \in feedHostSet

\* C13: the published set is always exactly what one refresh merged, and a
\* lookup, also one made while a refresh is in flight, reads that one set
\* for its exact match and for every suffix.
C13_LookupSeesWholeSnapshot ==
    [][/\ feedHostSet' = feedRet'.published
       /\ \A q \in FeedQueryHosts :
            CheckHost(q) => (/\ hostResp'.set = feedRet.published
                             /\ hostResp'.matchedHost
                                   = findMatchingHostIn(q, feedRet.published))]_vars

\* C13 witness: a lookup made while a refresh was in flight read the set the
\* previous refresh published and matched a suffix in it
C13_Witness ==
    /\ hostResp.status = 200 /\ hostResp.inFlight > 0
    /\ hostResp.set = {<<"evil", "com">>, <<"sub", "evil", "com">>}
    /\ hostResp.matchedHost = <<"sub", "evil", "com">>

\* C14 as stated: at most one updateFeeds run is in flight at any time.
C14_SingleRefreshInFlight == RunsInFlight <= 1

\* C15 as stated: a POST /refresh-feeds arriving less than 2 seconds after
\* the handler last started a refresh, also while that refresh is in flight,
\* is answered rate_limited, starts no run and leaves the published set alone.
C15_ManualRefreshSpacing ==
    [][(RefreshFeeds /\ refresh.manualStart # -1
                     /\ now - refresh.manualStart < RateLimitMs)
          => (/\ refresh'.answer = "rate_limited"
              /\ runs' = runs
              /\ feedHostSet' = feedHostSet)]_vars

\* the rules of runHeuristics in their documented order, each with whether
\* it matches the host and the reason it gives
HeurRules(host, allow, block) ==
    LET str == HostChars(host)
        tld == host[Len(host)]
        brands == {k \in 1..Len(brandTokens) :
                     /\ Includes(str, brandTokens[k])
                     /\ ~EndsWith(str, brandTokens[k] \o <<".", "c", "o", "m">>)}
        first == CHOOSE k \in brands : \A j \in brands : k <= j
    IN  << [hit |-> host \in allow, reason |-> NoReason],
           [hit |-> host \in block, reason |-> "Domain is on the local blocklist"],
           [hit |-> \E i \in 1..Len(str) - 3 : SubSeq(str, i, i + 3) = <<"x", "n", "-", "-">>,
            reason |-> "Punycode (possible homograph attack)"],
           [hit |-> Len(host) = 4 /\ \A i \in 1..4 :
                        Chars(host[i]) # <<>> /\ \A c \in {Chars(host[i])[k] : k \in 1..Len(Chars(host[i]))} : c \in Digits,
            reason |-> "IP address used as host"],
           [hit |-> Len(str) > 24, reason |-> "Unusually long hostname"],
           [hit |-> tld \in {"tk", "ml", "ga", "cf", "gq"},
            reason |-> "Suspicious TLD (." \o tld \o ")"],
           [hit |-> brands # {},
            reason |-> IF brands = {} THEN NoReason
                       ELSE "Contains brand token \"" \o brandNames[first]
                                \o "\" (possible impersonation)"] >>

\* the reason of the first rule that matches, null when none does
FirstHit(rules) ==
    LET hits == {i \in 1..Len(rules) : rules[i].hit}
    IN  IF hits = {} THEN NoReason
        ELSE rules[CHOOSE i \in hits : \A j \in hits : i <= j].reason

\* C20 as stated: runHeuristics returns the reason of the first rule, in the
\* order allowlist, blocklist, punycode, IPv4 literal, length, suspicious
\* TLD, brand token, that matches the host of the URL, and null when none does.
C20_FirstRuleWins ==
    heur.called =>
        heur.reason = FirstHit(HeurRules(hostnameFromUrl(heur.url), allowlist, blocklist))

\* C20 amended: the same for every URL but the extension's own warning page,
\* which gets null, and with the blocklist rule left out when the caller
\* passes skipLocalDb; paypal-login.tk, on neither list, gets the suspicious-TLD
\* reason.
C20_FirstRuleWinsUnlessSkipped ==
    heur.called =>
        LET host == hostnameFromUrl(heur.url)
            block == IF heur.skipLocalDb THEN {} ELSE blocklist
        IN  /\ IsWarningUrl(heur.url) => heur.reason = NoReason
            /\ ~IsWarningUrl(heur.url) =>
                  heur.reason = FirstHit(HeurRules(host, allowlist, block))
            /\ (host = PaypalTk /\ PaypalTk \notin allowlist \cup block)
                  => heur.reason = "Suspicious TLD (.tk)"

\* C20 witness: paypal-login.tk, on neither list, got the suspicious-TLD reason
C20_Witness ==
    /\ heur.called /\ heur.url = Url(PaypalTk, "/")
    /\ PaypalTk \notin allowlist \cup blocklist
    /\ heur.reason = "Suspicious TLD (.tk)"


\* C16: once more than the TTL has passed since an entry was written, a read
\* of its key returns no entry and removes the key from storage, the persisted
\* copy included.  Checked on part_004's host cache: when a hover check has
\* read an expired entry and no write to chrome.storage.local is under way,
\* neither the Map nor the persisted copy holds that entry any more.
C16_ExpiredReadRemovesEntry ==
    (hostHov.expiredTs # -1 /\ ~pendingPersist.due)
        => /\ hostCache[hostHov.host].ts # hostHov.expiredTs
           /\ persisted[hostHov.host].ts # hostHov.expiredTs

\* an entry of the direct variant's host cache that getHostCacheEntry would
\* still return
DirectLive(e) == e # NoHostEntry /\ ~DirectExpired(e)

\* C17: persisting the host cache and loading it in a fresh service worker
\* restores every entry that has not expired, with the same safe, reason,
\* source and ts, and admits no expired entry.  Checked on the direct variant:
\* a restart with every write applied keeps each live entry of the Map as it
\* was and leaves no expired entry in it.
C17_RestartRestoresLiveEntries ==
    [][(WorkerRestartDirect /\ ~pendingPersist.due)
        => \A h \in ExtHosts :
              /\ DirectLive(hostCache[h]) => hostCache'[h] = hostCache[h]
              /\ hostCache'[h] # NoHostEntry => ~DirectExpired(hostCache'[h])]_vars


\* C18: every check eventually completes with a verdict even when the remote
\* reputation API never responds.  Checked on the navigation check of the
\* direct variant: a handler that awaits callSafeBrowsingDirect eventually
\* returns.
C18_CheckEventuallyCompletes == (dnav.pc = "gsb") ~> (dnav.pc = "done")


\* the requests POST /log has kept that are about a target with a host
LogEntries ==
    {e \in {logReq.prev, logReq.last} : e.about # NoUrl /\ e.about.host # Null}

SameVerdict(b1, b2) ==
    /\ b1.blocked = b2.blocked
    /\ b1.reason = b2.reason
    /\ b1.apiUsed = b2.apiUsed

\* C19: a log record the extension sends, and the line the proxy prints for
\* it, carry the host name of the target and nothing else of its URL.  A
\* record sent for a navigation names exactly the host of the URL; a body
\* that came with a url is printed like the body naming only that url's
\* host; and two requests of the same kind about URLs of one host with the
\* same verdict give the same line, and the same record when the extension
\* sent them.
C19_LogCarriesHostOnly ==
    /\ \A e \in LogEntries :
          IF e.body.url = NoUrl
          THEN e.body.host = JoinDots(hostnameFromUrl(e.about))
          ELSE e.line = logLine([e.body EXCEPT !.url = NoUrl,
                                    !.host = JoinDots(hostnameFromUrl(e.about))])
    /\ \A e1, e2 \in LogEntries :
          ( /\ hostnameFromUrl(e1.about) = hostnameFromUrl(e2.about)
            /\ (e1.body.url = NoUrl) = (e2.body.url = NoUrl)
            /\ SameVerdict(e1.body, e2.body) )
          => /\ e1.line = e2.line
             /\ e1.body.url = NoUrl => e1.body = e2.body

\* the proxy has logged two blocked navigations to different URLs of one host
C19_Witness ==
    /\ logReq.prev.about = Url(Evil, "/login")
    /\ logReq.last.about = Url(Evil, "/reset?token=abc")
    /\ logReq.prev.body.url = NoUrl
    /\ logReq.last.body.url = NoUrl
    /\ logReq.prev.body.blocked
    /\ SameVerdict(logReq.prev.body, logReq.last.body)


\* the layers that send a request to the proxy or to Safe Browsing
RemoteLayers == {"proxy", "safebrowsing"}

\* C21: a check of the bare IPv4 host 203.0.113.5, on neither list, is
\* answered by the heuristics alone: the navigation issues no proxy or Safe
\* Browsing request and ends with the reason 'IP address used as host', under
\* every combination of the lookup settings.
C21_BareIpBlockedByHeuristicsAlone ==
    (nav.pc # "idle" /\ ~nav.ignored /\ nav.hostOnly = IpHost)
        => /\ \A i \in 1..Len(nav.trace) : nav.trace[i] \notin RemoteLayers
           /\ nav.pc = "done"
           /\ nav.reason = "IP address used as host"

\* the settings a navigation check started with: the allowlist test, the
\* enabled test and the choice of the proxy lookup
StartedWith(n, cfg) ==
    /\ n.allowlisted = (n.hostOnly \in cfg.allowlist)
    /\ n.ignored = ~cfg.enabled
    /\ (~n.ignored /\ n.reason = NoReason) => ((\E i \in 1..Len(n.trace) : n.trace[i] = "proxy") = cfg.useCloudLookup)

\* C22: when every change of the stored settings has been delivered to the
\* service worker, a navigation check that starts is evaluated with the
\* stored values of the allowlist, the enabled flag and the cloud lookup
C22_CheckStartsWithStoredSettings ==
    [][(changes = <<>> /\ nav.pc \in {"idle", "done"} /\ nav'.pc \notin {"idle"}
            /\ nav' # nav)
        => StartedWith(nav', stored)]_vars

\* C23: when no storage call of the popup is in flight, the cloud and the
\* Safe-Browsing-only checkboxes are not both checked, and the stored
\* useCloudLookup is not true together with a stored useSafeBrowsingOnly or a
\* stored API key
C23_CloudAndDirectExclusive ==
    (popup.open /\ popup.ops = <<>>)
        => /\ ~(popup.useCloud /\ popup.useSafeOnly)
           /\ ~(stored.useCloudLookup
                    /\ (stored.useSafeBrowsingOnly \/ stored.directApiKey # ""))

\* C24: when the navigation started by the Allow button has been checked,
\* with the new allowlist already delivered to the service worker when it
\* started, the host is in the stored allowlist and the tab was not sent to
\* the warning page again
C24_AllowedHostIsReached ==
    (warning.pc = "went" /\ nav.pc = "done" /\ nav.allowlisted)
        => /\ warning.host \in stored.allowlist
           /\ ~nav.redirected

\* C25: a run with --download or DOWNLOAD=1 fetches the CSV and, when the
\* fetch succeeds, leaves in urlhaus_hosts.txt the hosts of the downloaded
\* text, whether or not urlhaus.csv existed; a run without it fetches nothing
C25_DownloadFlagDownloads ==
    upd.ran =>
        /\ upd.shouldDownload => upd.fetched
        /\ (upd.shouldDownload /\ upd.fetchOk)
              => upd.hostsFile = [exists |-> TRUE, hosts |-> extractHostsFromText(upd.served)]
        /\ ~upd.shouldDownload => ~upd.fetched

\* what holds of the three operations while they have the unparsable URL
BadUrlHandled ==
    /\ (heur.called /\ heur.url = BadUrl) => heur.reason = NoReason
    /\ (chk.url = BadUrl /\ chk.pc # "idle" /\ ~chk.cached)
          => /\ chk.matches.feeds = Null
             /\ chk.sbOutcome = "none" => chk.pc = "sb"
             /\ chk.pc = "done" => chk.status = 200
    /\ (dnav.pc # "idle" /\ dnav.hostOnly = Null /\ ~dnav.ignored)
          => dnav.pc = "done" /\ ~dnav.redirected

\* C26: for a URL that cannot be parsed, runHeuristics returns null, GET
\* /check of part_000 matches no feed and goes on to Safe Browsing, answering
\* 200, and the onBeforeNavigate of background.js:542 ends at once without a
\* redirect and without touching the host cache or its persist timer
C26_UnparsableUrlFallsThrough ==
    /\ []BadUrlHandled
    /\ [][(dnav' # dnav /\ dnav'.hostOnly = Null)
            => (hostCache' = hostCache /\ persistTimer' = persistTimer)]_vars

C26_Witness ==
    /\ heur.called /\ heur.url = BadUrl
    /\ chk.url = BadUrl /\ chk.pc = "done" /\ ~chk.cached
    /\ dnav.pc = "done" /\ dnav.hostOnly = Null /\ ~dnav.ignored

\* the response of the request is the verdict held in the cache for its URL
AnswersFromEntry(c, e) == e # NoEntry /\ c.safe = e.safe /\ c.matches = e.matches

\* a response marked cached:true repeats the entry, which was younger than
\* CACHE_TTL_MS when the handler read it, and no lookup was made for it; a 200 response marked cached:false is in the cache
CachedAnswerSound ==
    chk.pc = "done" =>
        /\ chk.cached =>
              /\ AnswersFromEntry(chk, cache[chk.url])
              /\ chk.age < CACHE_TTL_MS
              /\ chk.sbOutcome = "none" /\ ~chk.ptAsked
              /\ chk.status = 200
        /\ (~chk.cached /\ chk.status = 200) => AnswersFromEntry(chk, cache[chk.url])

\* C27: a cached:true response of GET /check carries the verdict of the most
\* recent cached:false response for the same URL string, only while that
\* entry is younger than CACHE_TTL_MS and with no lookup; every cached:false
\* 200 response has written its verdict, and nothing else writes the cache
C27_CachedAnswerIsLastFreshVerdict ==
    /\ []CachedAnswerSound
    /\ [][cache' # cache
            => /\ chk'.pc = "done" /\ ~chk'.cached /\ chk'.status = 200
               /\ \A u \in DOMAIN cache : u # chk'.url => cache'[u] = cache[u]]_vars

C27_Witness ==
    /\ chk.pc = "done" /\ chk.cached
    /\ ~cache[chk.url].safe
    /\ chk.age > 0


\* C28: an entry is expired exactly when its age is above the TTL, in every
\* place that tests freshness; here for the URL cache of GET /check: a
\* request for a URL whose entry is of age at most CACHE_TTL_MS, the age
\* CACHE_TTL_MS itself included, is answered from that entry.
C28_EntryOfAgeTtlIsServed ==
    [][\A u \in DOMAIN cache :
          (/\ chk.pc \in {"idle", "done"} /\ chk' # chk /\ chk'.url = u
           /\ cache[u] # NoEntry /\ (now - cache[u].ts) <= CACHE_TTL_MS)
          => (chk'.pc = "done" /\ chk'.cached)]_vars


PersistRejected == pendingPersist.rejected /\ ~pendingPersist.due

SettledOnce ==
    \A i \in 1..MaxSends :
        /\ sends[i].resolves <= 1
        /\ sends[i].over => sends[i].resolves = 1
        /\ sends[i].host # Null => (sends[i].settled <=> sends[i].resolves = 1)

\* C31: the promise of safeSendMessage resolves exactly once whatever the
\* order of the response callback, a throw of sendMessage and the timeout
\* timer: it is resolved at most once and, the timer firing by itself, at
\* least once; a timer that finds it unsettled resolves it with 'timeout';
\* a callback or timer that finds it settled changes neither the value it
\* resolved with nor anything of the page.  The executor has no path that
\* rejects.
C31_SafeSendMessageSettlesOnce ==
    /\ []SettledOnce
    /\ [][\A i \in 1..MaxSends :
            /\ (sends[i].host # Null /\ sends[i].settled /\ sends'[i] # sends[i])
                  => /\ cs' = cs
                     /\ sends'[i].resolves = 1
                     /\ sends'[i].host # Null => sends'[i].value = sends[i].value
            /\ (sends[i].host # Null /\ ~sends[i].settled /\ sends'[i].host # Null
                   /\ ~sends'[i].timer)
                  => (sends'[i].settled /\ sends'[i].value = "timeout")]_vars
    /\ \A i \in 1..MaxSends :
          (sends[i].host # Null) ~> (sends[i].host = Null \/ sends[i].settled)

\* one promise timed out and its response callback is still to come, while
\* another has had both its callback and its timer and resolved once
C31_Witness ==
    \E i, j \in 1..MaxSends :
        /\ sends[i].over /\ sends[i].resolves = 1
        /\ sends[j].host # Null /\ sends[j].value = "timeout" /\ sends[j].cb = "pending"


\* the badge is on screen with the verdict of a host and no hideBadge is
\* about to take it away
BadgeShowsVerdict ==
    /\ cs.display = "block" /\ cs.opacity = 1 /\ ~cs.hidePending
    /\ cs.forHost # Null

\* C32: the badge shows a verdict only while the pointer is over a link, and
\* the verdict is the one of the host of that link: a result that arrives
\* after the pointer left, or went to a link of another host, is not shown.
C32_BadgeFollowsPointer ==
    BadgeShowsVerdict
        => (findLinkElement(cs.pointer) /\ hostnameOf(cs.pointer) = cs.forHost)


\* at most one hover timer is alive, hoverTimer refers to it, and while it is
\* alive the pointer is on a link of the host it was set for
OneHoverTimer ==
    /\ Len(cs.timers) <= 1
    /\ cs.timers = IF cs.hoverTimer = Null THEN <<>> ELSE <<cs.hoverTimer>>
    /\ cs.timers # <<>>
          => (findLinkElement(cs.pointer) /\ hostnameOf(cs.pointer) = cs.timers[1])

\* C33: hover checks are debounced.  At most one hover timer is pending; a
\* mouseout, a move to an element that is no link, a pagehide and a hidden
\* tab each clear it, so that a pending timer means the pointer has stayed
\* on its link; a CHECK_HOST_HOVER message is sent only by the callback of
\* that timer, for the host of the link under the pointer, and only when
\* the page's cache has no unexpired entry for the host.
C33_HoverChecksAreDebounced ==
    /\ []OneHoverTimer
    /\ [][/\ PageHidden => cs'.timers = <<>>
          /\ \A to \in CsElements :
                (PointerMoves(to) /\ ~(findLinkElement(to) /\ hostnameOf(to) # Null))
                    => cs'.timers = <<>>
          /\ \A i \in 1..MaxSends :
                (sends[i].host = Null /\ sends'[i].host # Null)
                    => /\ cs.timers = <<sends'[i].host>>
                       /\ hostnameOf(cs.pointer) = sends'[i].host
                       /\ getCached(cs, sends'[i].host) = NoCsEntry]_vars

\* the hover timer ran for a host whose entry in the page's cache had not
\* expired: it showed the cached verdict and sent nothing, at a time later
\* than the entry
C33_Witness ==
    /\ cs.lastHostChecked # Null /\ cs.sent = <<>>
    /\ cs.cache[cs.lastHostChecked] # NoCsEntry
    /\ cs.cache[cs.lastHostChecked].ts < now
    /\ cs.forHost = cs.lastHostChecked


\* C34: after a click on Proceed on the warning page shown for a URL, the
\* tab comes to display that URL.  Its safety half: the navigation the
\* button starts, once the handler is through with it, was not sent to the
\* warning page again.
C34_ProceedReachesTheUrl ==
    (warning.pc = "proceeded" /\ nav.pc = "done" /\ nav.url = warning.url)
        => ~nav.redirected

\* C35: a navigation handled after the service worker has started and before
\* the startup load has returned is evaluated with the stored enabled flag,
\* allowlist and lookup flag, not with the values the module declares.
C35_CheckBeforeLoadUsesStoredSettings ==
    [][(~loaded /\ nav.pc \in {"idle", "done"} /\ nav'.pc # "idle" /\ nav' # nav)
        => StartedWith(nav', stored)]_vars

\* C36: the stored allowlist changes only by explicit adds and removes and
\* loses none of them: the write of an add of host h leaves the stored list
\* as it was plus h, the write of a removal of h leaves it as it was minus h,
\* whatever other writes landed since the writer read the list.
C36_AllowlistLosesNoHost ==
    [][/\ (warning.pc = "set" /\ warning'.pc = "go")
            => stored'.allowlist = stored.allowlist \cup {warning.host}
       /\ (popup.ops # <<>> /\ popup'.ops = Tail(popup.ops)
                /\ Head(popup.ops).cont = "allow_added")
            => stored'.allowlist = stored.allowlist \cup {Head(popup.ops).key}
       /\ (popup.ops # <<>> /\ popup'.ops = Tail(popup.ops)
                /\ Head(popup.ops).cont = "allow_removed")
            => stored'.allowlist = stored.allowlist \ {Head(popup.ops).key}]_vars

\* C37: loading the persisted host cache replaces no entry of the Map by an
\* older one: an entry a check wrote between the start of the worker and the
\* end of the load is in the Map, with its verdict and timestamp, after it.
C37_LoadKeepsNewerEntries ==
    [][(~loaded /\ loaded')
        => \A h \in DOMAIN hostCache :
              hostCache[h] # NoHostEntry
                  => /\ hostCache'[h] # NoHostEntry
                     /\ hostCache'[h].ts >= hostCache[h].ts]_vars

\* C38: when two feed refreshes overlap, the set published once both have
\* finished is the one of the refresh that started last.  The startup
\* refresh starts with the process, before any manual one: when it settles
\* after a manual refresh has published, it leaves the published set alone.
C38_LastStartedRefreshWins ==
    [][(runs["startup"] > 0 /\ runs'["startup"] = 0 /\ runs["manual"] = 0
            /\ refresh.answer = "ok")
        => feedHostSet' = feedHostSet]_vars

\* C39: a navigation the handler sees with the extension disabled, one of a
\* sub-frame, and one to the extension's own warning page change nothing:
\* the handler returns with no redirect, no remote lookup started, the host
\* cache and its pending save as they were and no log request.
C39_SkippedNavigationsDoNothing ==
    [][(dnav' # dnav /\ dnav.pc \in {"idle", "done"}
            /\ (dnav'.ignored \/ dnav'.hostOnly = ExtensionId))
        => /\ dnav'.pc = "done" /\ ~dnav'.redirected
           /\ hostCache' = hostCache /\ persistTimer' = persistTimer
           /\ logReq' = logReq]_vars

\* C40: normalizeHost is idempotent: the host the handler has normalised,
\* hostOnly = normalizeHost(u.hostname), is normalised to itself, so that
\* setHostCacheEntry(hostOnly, ...) stores its verdict under hostOnly.
C40_NormalizeHostIdempotent ==
    (dnav.pc # "idle" /\ dnav.hostOnly # Null)
        => normalizeHost(dnav.hostOnly) = dnav.hostOnly

====
